---- MODULE Spec2Model ----
(***************************************************************************)
(* Model of the AsBindGroup derive resolver                                *)
(* (crates/bevy_render/macros/src/as_bind_group.rs).                       *)
(*                                                                         *)
(* derive_as_bind_group walks the struct-level attributes, checks the      *)
(* shape of the aggregate, walks every attribute of every named field,     *)
(* then makes a second pass over the slot table to emit the uniform        *)
(* bindings, and finally assembles the generated implementation.  Each     *)
(* loop iteration is one action; the attribute an iteration reads is       *)
(* chosen when the iteration runs and is recorded in ast, so ast is the    *)
(* part of the derive input that has been read so far.                     *)
(***************************************************************************)
EXTENDS Integers, Sequences, FiniteSets, TLC

\* ------------------------------------------------------------------ bounds

\* Largest binding index written in an attribute.
MaxIndex == 1
\* Largest number of attributes read, on the struct and on its fields
\* together.
MaxAttrs == 3
\* Largest number of items written after the binding index of a member's
\* declaration whose options are under study.
MaxItems == 2
\* Largest number of fields of a struct whose generated as_bind_group is
\* called.
MaxMembers == 2
\* Largest number of distinct image handles.
MaxHandles == 2
\* Largest number of calls of the generated as_bind_group.
MaxCalls == 3

\* ------------------------------------------------------- program constants

UNIFORM_ATTRIBUTE_NAME == "uniform"
TEXTURE_ATTRIBUTE_NAME == "texture"
SAMPLER_ATTRIBUTE_NAME == "sampler"
BIND_GROUP_DATA_ATTRIBUTE_NAME == "bind_group_data"

DIMENSION == "dimension"
SAMPLE_TYPE == "sample_type"
FILTERABLE == "filterable"
MULTISAMPLED == "multisampled"
SAMPLER_TYPE == "sampler_type"

DIM_1D == "1d"
DIM_2D == "2d"
DIM_3D == "3d"
DIM_2D_ARRAY == "2d_array"
DIM_CUBE == "cube"
DIM_CUBE_ARRAY == "cube_array"

FLOAT == "float"
DEPTH == "depth"
S_INT == "s_int"
U_INT == "u_int"

FILTERING == "filtering"
NON_FILTERING == "non_filtering"
COMPARISON == "comparison"

\* ------------------------------------------------------------ syntax trees

\* A token of an attribute's argument list, as parse_args_with sees it.
Tok(t, n, s) == [t |-> t, n |-> n, s |-> s]
LitIntTok(n) == Tok("LitInt", n, "")
\* An integer literal above u32::MAX: s holds its digits, n is unused.
WideLitIntTok == Tok("LitInt", 0, "4294967296")
CommaTok == Tok("Comma", 0, "")
IdentTok(s) == Tok("Ident", 0, s)
LtTok == Tok("Lt", 0, "")

\* A syn::NestedMeta: a literal, or a meta item (name = literal, bare path).
NestedLit(lit_t, n, s, b) ==
    [form |-> "Lit", path |-> "", lit_t |-> lit_t, n |-> n, s |-> s, b |-> b]
NestedInt(n) == NestedLit("Int", n, "", FALSE)
\* An integer literal above u32::MAX: s holds its digits, n is unused.
NestedWideInt == NestedLit("Int", 0, "4294967296", FALSE)
NestedStr(s) == NestedLit("Str", 0, s, FALSE)
NameValueStr(path, s) ==
    [form |-> "NameValue", path |-> path, lit_t |-> "Str", n |-> 0, s |-> s, b |-> FALSE]
NameValueBool(path, b) ==
    [form |-> "NameValue", path |-> path, lit_t |-> "Bool", n |-> 0, s |-> "", b |-> b]
NestedPath(path) ==
    [form |-> "Path", path |-> path, lit_t |-> "None", n |-> 0, s |-> "", b |-> FALSE]

\* A syn::Attribute.  path is the sequence of path segments (get_ident is
\* Some exactly for one segment), style is the shape parse_meta reports,
\* nested the items of a list, tokens the raw argument tokens.
Attribute(path, style, nested, tokens) ==
    [path |-> path, style |-> style, nested |-> nested, tokens |-> tokens]

\* syn::Path::get_ident: the single segment, or "" for None.
get_ident(attr) == IF Len(attr.path) = 1 THEN attr.path[1] ELSE ""

\* ------------------------------------------------------------ sub-parsers

\* LitInt::base10_parse::<u32>: fails on a literal above u32::MAX.
base10_parse_u32(lit) ==
    IF lit.s = "" THEN [ok |-> TRUE, v |-> lit.n] ELSE [ok |-> FALSE, v |-> 0]

\* bevy_macro_utils::get_lit_str: the string of a string literal.
get_lit_str(attr_name, lit) ==
    IF lit.lit_t = "Str"
    THEN [ok |-> TRUE, v |-> lit.s, err |-> "None"]
    ELSE [ok |-> FALSE, v |-> "", err |-> "ExpectedStringLiteral"]

\* bevy_macro_utils::get_lit_bool: the value of a boolean literal.
get_lit_bool(attr_name, lit) ==
    IF lit.lit_t = "Bool"
    THEN [ok |-> TRUE, v |-> lit.b, err |-> "None"]
    ELSE [ok |-> FALSE, v |-> FALSE, err |-> "ExpectedBoolLiteral"]

\* Faulty variant of get_texture_dimension_value: a word outside the
\* vocabulary is taken for the default.
get_texture_dimension_value_lenient(lit_str) ==
    CASE lit_str = DIM_1D -> [ok |-> TRUE, v |-> "D1", err |-> "None"]
      [] lit_str = DIM_2D_ARRAY -> [ok |-> TRUE, v |-> "D2Array", err |-> "None"]
      [] lit_str = DIM_3D -> [ok |-> TRUE, v |-> "D3", err |-> "None"]
      [] lit_str = DIM_CUBE -> [ok |-> TRUE, v |-> "Cube", err |-> "None"]
      [] lit_str = DIM_CUBE_ARRAY -> [ok |-> TRUE, v |-> "CubeArray", err |-> "None"]
      [] OTHER -> [ok |-> TRUE, v |-> "D2", err |-> "None"]

get_texture_dimension_value(lit_str) ==
    CASE lit_str = DIM_1D -> [ok |-> TRUE, v |-> "D1", err |-> "None"]
      [] lit_str = DIM_2D -> [ok |-> TRUE, v |-> "D2", err |-> "None"]
      [] lit_str = DIM_2D_ARRAY -> [ok |-> TRUE, v |-> "D2Array", err |-> "None"]
      [] lit_str = DIM_3D -> [ok |-> TRUE, v |-> "D3", err |-> "None"]
      [] lit_str = DIM_CUBE -> [ok |-> TRUE, v |-> "Cube", err |-> "None"]
      [] lit_str = DIM_CUBE_ARRAY -> [ok |-> TRUE, v |-> "CubeArray", err |-> "None"]
      [] OTHER -> [ok |-> FALSE, v |-> "None", err |-> "NotAValidDimension"]

\* BindingTextureSampleType; filterable only means something for Float.
SampleType(variant, filterable) == [variant |-> variant, filterable |-> filterable]

get_texture_sample_type_value(lit_str) ==
    CASE lit_str = FLOAT -> [ok |-> TRUE, v |-> SampleType("Float", TRUE), err |-> "None"]
      [] lit_str = DEPTH -> [ok |-> TRUE, v |-> SampleType("Depth", FALSE), err |-> "None"]
      [] lit_str = S_INT -> [ok |-> TRUE, v |-> SampleType("Sint", FALSE), err |-> "None"]
      [] lit_str = U_INT -> [ok |-> TRUE, v |-> SampleType("Uint", FALSE), err |-> "None"]
      [] OTHER -> [ok |-> FALSE, v |-> SampleType("None", FALSE),
                   err |-> "NotAValidSampleType"]

\* The locals of get_texture_attrs before its loop: dimension and
\* sample_type take their types' defaults, multisampled the default of bool.
TextureAttrsLocals ==
    [dimension |-> "D2",
     sample_type |-> SampleType("Float", TRUE),
     multisampled |-> FALSE,
     filterable |-> [some |-> FALSE, v |-> FALSE],
     err |-> "None"]

\* Faulty variant of TextureAttrsStep: filterable is judged on the spot,
\* against the sample type found so far.
TextureAttrsStepEagerFilterable(l, meta) ==
    CASE meta.form = "NameValue" /\ meta.path = DIMENSION ->
            LET value == get_lit_str(DIMENSION, meta)
                dim == get_texture_dimension_value(value.v)
            IN  IF ~value.ok THEN [l EXCEPT !.err = value.err]
                ELSE IF ~dim.ok THEN [l EXCEPT !.err = dim.err]
                ELSE [l EXCEPT !.dimension = dim.v]
      [] meta.form = "NameValue" /\ meta.path = SAMPLE_TYPE ->
            LET value == get_lit_str(SAMPLE_TYPE, meta)
                st == get_texture_sample_type_value(value.v)
            IN  IF ~value.ok THEN [l EXCEPT !.err = value.err]
                ELSE IF ~st.ok THEN [l EXCEPT !.err = st.err]
                ELSE [l EXCEPT !.sample_type = st.v]
      [] meta.form = "NameValue" /\ meta.path = MULTISAMPLED ->
            LET value == get_lit_bool(MULTISAMPLED, meta)
            IN  IF ~value.ok THEN [l EXCEPT !.err = value.err]
                ELSE [l EXCEPT !.multisampled = value.v]
      [] meta.form = "NameValue" /\ meta.path = FILTERABLE ->
            LET value == get_lit_bool(FILTERABLE, meta)
            IN  IF ~value.ok THEN [l EXCEPT !.err = value.err]
                ELSE IF l.sample_type.variant # "Float"
                THEN [l EXCEPT !.err = "FilterableRequiresFloat"]
                ELSE [l EXCEPT !.sample_type = SampleType("Float", value.v)]
      [] meta.form = "NameValue" -> [l EXCEPT !.err = "NotAValidName"]
      [] OTHER -> [l EXCEPT !.err = "NotANameValuePair"]

\* One iteration of the loop of get_texture_attrs over the meta items.
TextureAttrsStep(l, meta) ==
    CASE meta.form = "NameValue" /\ meta.path = DIMENSION ->
            LET value == get_lit_str(DIMENSION, meta)
                dim == get_texture_dimension_value(value.v)
            IN  IF ~value.ok THEN [l EXCEPT !.err = value.err]
                ELSE IF ~dim.ok THEN [l EXCEPT !.err = dim.err]
                ELSE [l EXCEPT !.dimension = dim.v]
      [] meta.form = "NameValue" /\ meta.path = SAMPLE_TYPE ->
            LET value == get_lit_str(SAMPLE_TYPE, meta)
                st == get_texture_sample_type_value(value.v)
            IN  IF ~value.ok THEN [l EXCEPT !.err = value.err]
                ELSE IF ~st.ok THEN [l EXCEPT !.err = st.err]
                ELSE [l EXCEPT !.sample_type = st.v]
      [] meta.form = "NameValue" /\ meta.path = MULTISAMPLED ->
            LET value == get_lit_bool(MULTISAMPLED, meta)
            IN  IF ~value.ok THEN [l EXCEPT !.err = value.err]
                ELSE [l EXCEPT !.multisampled = value.v]
      [] meta.form = "NameValue" /\ meta.path = FILTERABLE ->
            LET value == get_lit_bool(FILTERABLE, meta)
            IN  IF ~value.ok THEN [l EXCEPT !.err = value.err]
                ELSE [l EXCEPT !.filterable = [some |-> TRUE, v |-> value.v]]
      [] meta.form = "NameValue" -> [l EXCEPT !.err = "NotAValidName"]
      [] OTHER -> [l EXCEPT !.err = "NotANameValuePair"]

RECURSIVE TextureAttrsLoop(_, _)
TextureAttrsLoop(l, metas) ==
    IF metas = <<>> \/ l.err # "None" THEN l
    ELSE TextureAttrsLoop(TextureAttrsStep(l, Head(metas)), Tail(metas))

TextureAttrs(dimension, sample_type, multisampled) ==
    [dimension |-> dimension, sample_type |-> sample_type,
     multisampled |-> multisampled]

NoTextureAttrs == TextureAttrs("None", SampleType("None", FALSE), FALSE)

\* get_texture_attrs: the loop, then the filterable post-pass.
get_texture_attrs(metas) ==
    LET l == TextureAttrsLoop(TextureAttrsLocals, metas)
    IN  IF l.err # "None" THEN [ok |-> FALSE, v |-> NoTextureAttrs, err |-> l.err]
        ELSE IF l.filterable.some
        THEN IF l.sample_type.variant = "Float"
             THEN [ok |-> TRUE,
                   v |-> TextureAttrs(l.dimension,
                                      SampleType("Float", l.filterable.v),
                                      l.multisampled),
                   err |-> "None"]
             ELSE [ok |-> FALSE, v |-> NoTextureAttrs,
                   err |-> "FilterableRequiresFloat"]
        ELSE [ok |-> TRUE,
              v |-> TextureAttrs(l.dimension, l.sample_type, l.multisampled),
              err |-> "None"]

\* Faulty variant of get_sampler_binding_type_value: two words stand for
\* each other's variant.
get_sampler_binding_type_value_swapped(lit_str) ==
    CASE lit_str = FILTERING -> [ok |-> TRUE, v |-> "Filtering", err |-> "None"]
      [] lit_str = NON_FILTERING -> [ok |-> TRUE, v |-> "Comparison", err |-> "None"]
      [] lit_str = COMPARISON -> [ok |-> TRUE, v |-> "NonFiltering", err |-> "None"]
      [] OTHER -> [ok |-> FALSE, v |-> "None", err |-> "NotAValidSamplerType"]

get_sampler_binding_type_value(lit_str) ==
    CASE lit_str = FILTERING -> [ok |-> TRUE, v |-> "Filtering", err |-> "None"]
      [] lit_str = NON_FILTERING -> [ok |-> TRUE, v |-> "NonFiltering", err |-> "None"]
      [] lit_str = COMPARISON -> [ok |-> TRUE, v |-> "Comparison", err |-> "None"]
      [] OTHER -> [ok |-> FALSE, v |-> "None", err |-> "NotAValidSamplerType"]

\* One iteration of the loop of get_sampler_attrs; l is the binding type
\* found so far, or the error.
SamplerAttrsStep(l, meta) ==
    CASE meta.form = "NameValue" /\ meta.path = SAMPLER_TYPE ->
            LET value == get_lit_str(DIMENSION, meta)
                ty == get_sampler_binding_type_value(value.v)
            IN  IF ~value.ok THEN [l EXCEPT !.ok = FALSE, !.err = value.err]
                ELSE IF ~ty.ok THEN [l EXCEPT !.ok = FALSE, !.err = ty.err]
                ELSE [l EXCEPT !.v = ty.v]
      [] meta.form = "NameValue" -> [l EXCEPT !.ok = FALSE, !.err = "NotAValidName"]
      [] OTHER -> [l EXCEPT !.ok = FALSE, !.err = "NotANameValuePair"]

RECURSIVE SamplerAttrsLoop(_, _)
SamplerAttrsLoop(l, metas) ==
    IF metas = <<>> \/ ~l.ok THEN l
    ELSE SamplerAttrsLoop(SamplerAttrsStep(l, Head(metas)), Tail(metas))

\* get_sampler_attrs: sampler_binding_type starts as Filtering.
get_sampler_attrs(metas) ==
    LET l == SamplerAttrsLoop([ok |-> TRUE, v |-> "Filtering", err |-> "None"], metas)
    IN  IF l.ok THEN l ELSE [l EXCEPT !.v = "None"]

\* get_binding_nested_meta: the binding index and the remaining items of a
\* #[foo(u32, ...)] attribute.
get_binding_nested_meta(attr) ==
    IF attr.style = "List"
    THEN IF attr.nested = <<>>
         THEN [ok |-> FALSE, index |-> 0, rest |-> <<>>, err |-> "ExpectedU32List"]
         ELSE LET binding_meta == Head(attr.nested)
              IN  IF ~(binding_meta.form = "Lit" /\ binding_meta.lit_t = "Int")
                  THEN [ok |-> FALSE, index |-> 0, rest |-> <<>>,
                        err |-> "ExpectedU32List"]
                  ELSE IF ~base10_parse_u32(binding_meta).ok
                  THEN [ok |-> FALSE, index |-> 0, rest |-> <<>>,
                        err |-> "IntegerOutOfRange"]
                  ELSE [ok |-> TRUE, index |-> base10_parse_u32(binding_meta).v,
                        rest |-> Tail(attr.nested), err |-> "None"]
    ELSE IF attr.style = "Invalid"
    THEN [ok |-> FALSE, index |-> 0, rest |-> <<>>, err |-> "ParseMeta"]
    ELSE [ok |-> FALSE, index |-> 0, rest |-> <<>>, err |-> "ExpectedList"]

\* The closure handed to parse_args_with for a struct-level uniform:
\* LitInt parsed as u32, a comma, an identifier, and nothing after it.
ParseStructUniformArgs(tokens) ==
    IF /\ Len(tokens) = 3
       /\ tokens[1].t = "LitInt" /\ base10_parse_u32(tokens[1]).ok
       /\ tokens[2].t = "Comma"
       /\ tokens[3].t = "Ident"
    THEN [ok |-> TRUE, binding_index |-> base10_parse_u32(tokens[1]).v,
          converted_shader_type |-> tokens[3].s]
    ELSE [ok |-> FALSE, binding_index |-> 0, converted_shader_type |-> ""]

\* The closure handed to parse_args_with for bind_group_data: one
\* identifier and nothing after it.
ParsePreparedDataIdent(tokens) ==
    IF Len(tokens) = 1 /\ tokens[1].t = "Ident"
    THEN [ok |-> TRUE, ident |-> tokens[1].s]
    ELSE [ok |-> FALSE, ident |-> ""]

\* -------------------------------------------------------------- slot table

\* BindingState.  A field is named by its ident, its position among the
\* fields of the struct (field names are unique); 0 stands for no field.
Free ==
    [tag |-> "Free", binding_type |-> "None", ident |-> 0, uniform_fields |-> <<>>]
Occupied(binding_type, ident) ==
    [tag |-> "Occupied", binding_type |-> binding_type, ident |-> ident,
     uniform_fields |-> <<>>]
OccupiedConvertedUniform ==
    [tag |-> "OccupiedConvertedUniform", binding_type |-> "None", ident |-> 0,
     uniform_fields |-> <<>>]
OccupiedMergableUniform(uniform_fields) ==
    [tag |-> "OccupiedMergableUniform", binding_type |-> "None", ident |-> 0,
     uniform_fields |-> uniform_fields]

\* Vec::resize(required_len, BindingState::Free), called only to grow.
RECURSIVE Resize(_, _)
Resize(states, required_len) ==
    IF required_len > Len(states)
    THEN Resize(Append(states, Free), required_len)
    ELSE states

\* binding_states[binding_index], the table being indexed from 0.
StateAt(states, binding_index) == states[binding_index + 1]
SetStateAt(states, binding_index, value) ==
    [states EXCEPT ![binding_index + 1] = value]

\* ----------------------------------------------------------- emitted items

\* An element of bind_group_entries: BindGroupEntry { binding, resource:
\* bindings[binding_vec_index].get_binding() }.
BindGroupEntry(binding, binding_vec_index) ==
    [binding |-> binding, resource |-> binding_vec_index]

\* An element of binding_impls: the OwnedBindingResource variant built, and
\* what it is built from: the converted shader type, a field's handle, one
\* field's value, or the packed struct of several fields.
BindingImpl(resource, from, fields, shader_type) ==
    [resource |-> resource, from |-> from, fields |-> fields,
     shader_type |-> shader_type]

\* An element of binding_layouts: BindGroupLayoutEntry { binding, ty }.
\* min_size_of names the type whose ShaderType::min_size() is taken.
BindGroupLayoutEntry(binding, ty, min_size_of, texture, sampler) ==
    [binding |-> binding, ty |-> ty, min_size_of |-> min_size_of,
     texture |-> texture, sampler |-> sampler]

\* The type a uniform buffer's minimum size is taken from.
SizeOf(kind, shader_type, fields) ==
    [kind |-> kind, shader_type |-> shader_type, fields |-> fields]
NoSizeOf == SizeOf("None", "", <<>>)

\* The Error a failed resolution returns.  A slot conflict names the
\* rejected field, the binding, and what its message says of the occupant.
Error(kind, field, binding, occupant, occupant_type) ==
    [kind |-> kind, field |-> field, binding |-> binding,
     occupant |-> occupant, occupant_type |-> occupant_type]
NoError == Error("None", 0, 0, 0, "None")

\* The mutable locals of derive_as_bind_group, and the error it returned.
Locals(states, impls, entries, layouts, prepared, structs, err) ==
    [binding_states |-> states, binding_impls |-> impls,
     bind_group_entries |-> entries, binding_layouts |-> layouts,
     attr_prepared_data_ident |-> prepared, field_struct_impls |-> structs,
     err |-> err]

\* ------------------------------------------------- struct-level attributes

\* Faulty variant of ConvertedUniformBinding: the entry reads bindings at
\* the binding index instead of at the position of the impl.
ConvertedUniformBindingIndexedBySlot(l, binding_index, converted_shader_type) ==
    LET states == Resize(l.binding_states, binding_index + 1)
    IN  [l EXCEPT
           !.binding_impls =
               Append(@, BindingImpl("Buffer", "ConvertedShaderType", <<>>,
                                     converted_shader_type)),
           !.binding_layouts =
               Append(@, BindGroupLayoutEntry(
                             binding_index, "Buffer",
                             SizeOf("ShaderType", converted_shader_type, <<>>),
                             NoTextureAttrs, "None")),
           !.bind_group_entries =
               Append(@, BindGroupEntry(binding_index, binding_index)),
           !.binding_states =
               SetStateAt(states, binding_index, OccupiedConvertedUniform)]

\* The uniform branch of the struct-level loop once its arguments parsed:
\* push the impl, the layout and the entry, grow the table, take the slot.
ConvertedUniformBinding(l, binding_index, converted_shader_type) ==
    LET binding_vec_index == Len(l.bind_group_entries)
        states == Resize(l.binding_states, binding_index + 1)
    IN  [l EXCEPT
           !.binding_impls =
               Append(@, BindingImpl("Buffer", "ConvertedShaderType", <<>>,
                                     converted_shader_type)),
           !.binding_layouts =
               Append(@, BindGroupLayoutEntry(
                             binding_index, "Buffer",
                             SizeOf("ShaderType", converted_shader_type, <<>>),
                             NoTextureAttrs, "None")),
           !.bind_group_entries =
               Append(@, BindGroupEntry(binding_index, binding_vec_index)),
           !.binding_states =
               SetStateAt(states, binding_index, OccupiedConvertedUniform)]

\* The bind_group_data branch: a parse failure leaves the local as it was.
PreparedDataAttr(l, attr) ==
    LET parsed == ParsePreparedDataIdent(attr.tokens)
    IN  IF parsed.ok
        THEN [l EXCEPT !.attr_prepared_data_ident = parsed.ident]
        ELSE l

\* The uniform branch: a parse failure is the error of the whole derive.
StructUniformAttr(l, attr) ==
    LET parsed == ParseStructUniformArgs(attr.tokens)
    IN  IF ~parsed.ok
        THEN [l EXCEPT !.err = Error("StructUniformFormat", 0, 0, 0, "None")]
        ELSE ConvertedUniformBinding(l, parsed.binding_index,
                                     parsed.converted_shader_type)

\* One iteration of the loop over ast.attrs.
StructAttrStep(l, attr) ==
    LET attr_ident == get_ident(attr)
    IN  IF attr_ident = "" THEN l
        ELSE IF attr_ident = BIND_GROUP_DATA_ATTRIBUTE_NAME
        THEN PreparedDataAttr(l, attr)
        ELSE IF attr_ident = UNIFORM_ATTRIBUTE_NAME
        THEN StructUniformAttr(l, attr)
        ELSE l

\* -------------------------------------------------- field-level attributes

\* The binding type an attribute's name selects; "None" for any other name.
BindingTypeOf(attr_ident) ==
    IF attr_ident = UNIFORM_ATTRIBUTE_NAME THEN "Uniform"
    ELSE IF attr_ident = TEXTURE_ATTRIBUTE_NAME THEN "Texture"
    ELSE IF attr_ident = SAMPLER_ATTRIBUTE_NAME THEN "Sampler"
    ELSE "None"

\* Faulty variant of FreeArm: the bind group entry of a uniform is pushed
\* at once instead of being deferred to the second pass.
FreeArmEagerUniform(l, binding_type, field_name, binding_index) ==
    LET binding_vec_index == Len(l.bind_group_entries)
    IN  [l EXCEPT
           !.bind_group_entries =
               Append(@, BindGroupEntry(binding_index, binding_vec_index)),
           !.binding_states =
               SetStateAt(@, binding_index,
                          IF binding_type = "Uniform"
                          THEN OccupiedMergableUniform(<<field_name>>)
                          ELSE Occupied(binding_type, field_name))]

\* Arm BindingState::Free: a uniform starts a mergable slot; a texture or
\* sampler pushes its bind group entry and occupies the slot.
FreeArm(l, binding_type, field_name, binding_index) ==
    IF binding_type = "Uniform"
    THEN [l EXCEPT !.binding_states =
              SetStateAt(@, binding_index, OccupiedMergableUniform(<<field_name>>))]
    ELSE LET binding_vec_index == Len(l.bind_group_entries)
         IN  [l EXCEPT
                !.bind_group_entries =
                    Append(@, BindGroupEntry(binding_index, binding_vec_index)),
                !.binding_states =
                    SetStateAt(@, binding_index, Occupied(binding_type, field_name))]

\* Faulty variant of OccupiedArm: a uniform declared on a slot a texture or
\* sampler holds is passed over instead of rejected.
OccupiedArmAdmitsUniform(l, binding_type, field_name, binding_index) ==
    IF binding_type = "Uniform" THEN l
    ELSE LET state == StateAt(l.binding_states, binding_index)
         IN  [l EXCEPT !.err = Error("OccupiedByField", field_name, binding_index,
                                     state.ident, state.binding_type)]

\* Faulty variant of OccupiedArm: the newcomer takes the slot over.
OccupiedArmOverwrites(l, binding_type, field_name, binding_index) ==
    FreeArm(l, binding_type, field_name, binding_index)

\* Arm BindingState::Occupied: always the error naming the occupying field
\* and its type.
OccupiedArm(l, binding_type, field_name, binding_index) ==
    LET value == StateAt(l.binding_states, binding_index)
    IN  [l EXCEPT !.err = Error("OccupiedByField", field_name, binding_index,
                                value.ident, value.binding_type)]

\* Faulty variant of OccupiedConvertedUniformArm: the slot is treated as
\* Free.
OccupiedConvertedUniformArmAsFree(l, binding_type, field_name, binding_index) ==
    FreeArm(l, binding_type, field_name, binding_index)

\* Arm BindingState::OccupiedConvertedUniform: always the error naming the
\* struct-level uniform binding.
OccupiedConvertedUniformArm(l, binding_type, field_name, binding_index) ==
    [l EXCEPT !.err = Error("OccupiedByStructUniform", field_name, binding_index,
                            0, "StructLevelUniform")]

\* Faulty variant of OccupiedMergableUniformArm: a uniform replaces the
\* slot's fields instead of joining them.
OccupiedMergableUniformArmReplaces(l, binding_type, field_name, binding_index) ==
    IF binding_type = "Uniform"
    THEN [l EXCEPT !.binding_states =
             SetStateAt(@, binding_index, OccupiedMergableUniform(<<field_name>>))]
    ELSE [l EXCEPT !.err = Error("OccupiedByUniform", field_name, binding_index,
                                 0, "Uniform")]

\* Faulty variant of OccupiedMergableUniformArm: the binding type is not
\* looked at, so a texture or sampler joins the slot's fields too.
OccupiedMergableUniformArmAnyType(l, binding_type, field_name, binding_index) ==
    LET value == StateAt(l.binding_states, binding_index)
    IN  [l EXCEPT !.binding_states =
            SetStateAt(@, binding_index,
                       OccupiedMergableUniform(Append(value.uniform_fields, field_name)))]

\* Faulty variant of OccupiedMergableUniformArm: a uniform is put in front
\* of the slot's fields instead of behind them.
OccupiedMergableUniformArmPrepends(l, binding_type, field_name, binding_index) ==
    IF binding_type = "Uniform"
    THEN LET value == StateAt(l.binding_states, binding_index)
         IN  [l EXCEPT !.binding_states =
                 SetStateAt(@, binding_index,
                            OccupiedMergableUniform(
                                <<field_name>> \o value.uniform_fields))]
    ELSE [l EXCEPT !.err = Error("OccupiedByUniform", field_name, binding_index,
                                 0, "Uniform")]

\* Arm BindingState::OccupiedMergableUniform: a uniform joins the slot's
\* fields; a texture or sampler is the error naming the type Uniform.
OccupiedMergableUniformArm(l, binding_type, field_name, binding_index) ==
    IF binding_type = "Uniform"
    THEN LET value == StateAt(l.binding_states, binding_index)
         IN  [l EXCEPT !.binding_states =
                 SetStateAt(@, binding_index,
                            OccupiedMergableUniform(
                                Append(value.uniform_fields, field_name)))]
    ELSE [l EXCEPT !.err = Error("OccupiedByUniform", field_name, binding_index,
                                 0, "Uniform")]

\* match &mut binding_states[binding_index as usize]
MatchBindingState(l, binding_type, field_name, binding_index) ==
    LET tag == StateAt(l.binding_states, binding_index).tag
    IN  CASE tag = "Free" -> FreeArm(l, binding_type, field_name, binding_index)
          [] tag = "Occupied" ->
                OccupiedArm(l, binding_type, field_name, binding_index)
          [] tag = "OccupiedConvertedUniform" ->
                OccupiedConvertedUniformArm(l, binding_type, field_name, binding_index)
          [] tag = "OccupiedMergableUniform" ->
                OccupiedMergableUniformArm(l, binding_type, field_name, binding_index)

\* Arm BindingType::Texture of the codegen match.
TextureBinding(l, field_name, binding_index, nested_meta_items) ==
    LET texture_attrs == get_texture_attrs(nested_meta_items)
    IN  IF ~texture_attrs.ok
        THEN [l EXCEPT !.err = Error(texture_attrs.err, field_name, binding_index,
                                     0, "None")]
        ELSE [l EXCEPT
                !.binding_impls =
                    Append(@, BindingImpl("TextureView", "Handle", <<field_name>>, "")),
                !.binding_layouts =
                    Append(@, BindGroupLayoutEntry(binding_index, "Texture", NoSizeOf,
                                                   texture_attrs.v, "None"))]

\* Arm BindingType::Sampler of the codegen match.
SamplerBinding(l, field_name, binding_index, nested_meta_items) ==
    LET sampler_attrs == get_sampler_attrs(nested_meta_items)
    IN  IF ~sampler_attrs.ok
        THEN [l EXCEPT !.err = Error(sampler_attrs.err, field_name, binding_index,
                                     0, "None")]
        ELSE [l EXCEPT
                !.binding_impls =
                    Append(@, BindingImpl("Sampler", "Handle", <<field_name>>, "")),
                !.binding_layouts =
                    Append(@, BindGroupLayoutEntry(binding_index, "Sampler", NoSizeOf,
                                                   NoTextureAttrs, sampler_attrs.v))]

\* match binding_type: nothing for a uniform, whose codegen is deferred.
BindingCodegen(l, binding_type, field_name, binding_index, nested_meta_items) ==
    CASE binding_type = "Uniform" -> l
      [] binding_type = "Texture" ->
            TextureBinding(l, field_name, binding_index, nested_meta_items)
      [] binding_type = "Sampler" ->
            SamplerBinding(l, field_name, binding_index, nested_meta_items)

\* A binding attribute whose index parsed: grow the table, match the slot,
\* and unless that returned an error, generate the binding.
BindField(l, binding_type, field_name, binding_index, nested_meta_items) ==
    LET grown == [l EXCEPT !.binding_states = Resize(@, binding_index + 1)]
        matched == MatchBindingState(grown, binding_type, field_name, binding_index)
    IN  IF matched.err # NoError THEN matched
        ELSE BindingCodegen(matched, binding_type, field_name, binding_index,
                            nested_meta_items)

\* One iteration of the inner loop over field.attrs.
FieldAttrStep(l, field_name, attr) ==
    LET attr_ident == get_ident(attr)
        binding_type == BindingTypeOf(attr_ident)
        parsed == get_binding_nested_meta(attr)
    IN  IF attr_ident = ""
        THEN [l EXCEPT !.err = Error("ExpectedIdentifier", field_name, 0, 0, "None")]
        ELSE IF binding_type = "None" THEN l
        ELSE IF ~parsed.ok
        THEN [l EXCEPT !.err = Error(parsed.err, field_name, 0, 0, "None")]
        ELSE BindField(l, binding_type, field_name, parsed.index, parsed.rest)

\* ------------------------------------------------------------ uniform pass

\* The body of the second loop for a slot holding uniform fields: one entry,
\* one impl and one layout; with several fields also the packed struct
\* _<Struct>AsBindGroupUniformStructBindGroup<binding_index>.
UniformBinding(l, binding_index, uniform_fields) ==
    LET binding_vec_index == Len(l.bind_group_entries)
        entries == Append(l.bind_group_entries,
                          BindGroupEntry(binding_index, binding_vec_index))
    IN  IF Len(uniform_fields) = 1
        THEN [l EXCEPT
                !.bind_group_entries = entries,
                !.binding_impls =
                    Append(@, BindingImpl("Buffer", "Field", uniform_fields, "")),
                !.binding_layouts =
                    Append(@, BindGroupLayoutEntry(
                                  binding_index, "Buffer",
                                  SizeOf("FieldTy", "", uniform_fields),
                                  NoTextureAttrs, "None"))]
        ELSE [l EXCEPT
                !.bind_group_entries = entries,
                !.field_struct_impls =
                    Append(@, [binding_index |-> binding_index,
                               fields |-> uniform_fields]),
                !.binding_impls =
                    Append(@, BindingImpl("Buffer", "UniformStruct", uniform_fields, "")),
                !.binding_layouts =
                    Append(@, BindGroupLayoutEntry(
                                  binding_index, "Buffer",
                                  SizeOf("UniformStruct", "", uniform_fields),
                                  NoTextureAttrs, "None"))]

\* One iteration of the loop over binding_states.iter().enumerate().
UniformStep(l, binding_index) ==
    LET binding_state == StateAt(l.binding_states, binding_index)
    IN  IF binding_state.tag = "OccupiedMergableUniform"
        THEN UniformBinding(l, binding_index, binding_state.uniform_fields)
        ELSE l

\* ---------------------------------------------------------------- assembly

\* The generated implementation: the packed structs, type Data, the
\* expression for data, and the three lists spliced into as_bind_group and
\* bind_group_layout.
Tokens(structs, data, get_data, bindings, entries, layout_entries) ==
    [field_struct_impls |-> structs, Data |-> data, get_prepared_data |-> get_data,
     bindings |-> bindings, entries |-> entries, layout_entries |-> layout_entries]

NoTokens == Tokens(<<>>, "", "", <<>>, <<>>, <<>>)

GeneratedImpl(l) ==
    IF l.attr_prepared_data_ident # ""
    THEN Tokens(l.field_struct_impls, l.attr_prepared_data_ident, "self.into()",
                l.binding_impls, l.bind_group_entries, l.binding_layouts)
    ELSE Tokens(l.field_struct_impls, "()", "()",
                l.binding_impls, l.bind_group_entries, l.binding_layouts)

\* ------------------------------------------------------------------ inputs

Indices == 0..MaxIndex

\* The struct-level attributes a struct may carry: bind_group_data with one
\* identifier or with a generic type, uniform with well-formed or malformed
\* arguments, an attribute of another name, an attribute with a longer path.
StructAttrChoices ==
    {Attribute(<<BIND_GROUP_DATA_ATTRIBUTE_NAME>>, "List", <<>>, toks) :
        toks \in {<<IdentTok("Key")>>,
                  <<IdentTok("Vec"), LtTok, IdentTok("u8")>>}}
    \cup {Attribute(<<UNIFORM_ATTRIBUTE_NAME>>, "List", <<>>,
                    <<LitIntTok(n), CommaTok, IdentTok("ConvType")>>) : n \in Indices}
    \cup {Attribute(<<UNIFORM_ATTRIBUTE_NAME>>, "List", <<>>, toks) :
            toks \in {<<LitIntTok(0)>>,
                      <<WideLitIntTok, CommaTok, IdentTok("ConvType")>>}}
    \cup {Attribute(<<"derive">>, "List", <<>>, <<IdentTok("Clone")>>),
          Attribute(<<"bevy", "uuid">>, "List", <<>>, <<>>)}

\* The shapes of ast.data.
DataChoices == {"NamedStruct", "TupleStruct", "UnitStruct", "Enum", "Union"}

\* The items written after the binding index, per attribute name.
MetaChoices(name) ==
    CASE name = UNIFORM_ATTRIBUTE_NAME ->
            {<<>>, <<NameValueStr("visibility", "vertex")>>}
      [] name = TEXTURE_ATTRIBUTE_NAME ->
            {<<>>,
             <<NameValueStr(DIMENSION, DIM_3D)>>,
             <<NameValueStr(SAMPLE_TYPE, DEPTH), NameValueBool(FILTERABLE, TRUE)>>}
      [] name = SAMPLER_ATTRIBUTE_NAME ->
            {<<>>,
             <<NameValueStr(SAMPLER_TYPE, "linear")>>}

BindingAttributeNames ==
    {UNIFORM_ATTRIBUTE_NAME, TEXTURE_ATTRIBUTE_NAME, SAMPLER_ATTRIBUTE_NAME}

\* The field-level attributes a field may carry: the three binding
\* attributes at every index, binding attributes at index 0 with items
\* after the index, binding attributes whose index does not parse, an
\* attribute of another name, an attribute with a longer path.
FieldAttrChoices ==
    {Attribute(<<name>>, "List", <<NestedInt(n)>>, <<>>) :
        name \in BindingAttributeNames, n \in Indices}
    \cup UNION {{Attribute(<<name>>, "List", <<NestedInt(0)>> \o metas, <<>>) :
                    metas \in MetaChoices(name)} : name \in BindingAttributeNames}
    \cup {Attribute(<<TEXTURE_ATTRIBUTE_NAME>>, "Path", <<>>, <<>>),
          Attribute(<<SAMPLER_ATTRIBUTE_NAME>>, "List", <<>>, <<>>),
          Attribute(<<UNIFORM_ATTRIBUTE_NAME>>, "List", <<NestedStr("0")>>, <<>>),
          Attribute(<<TEXTURE_ATTRIBUTE_NAME>>, "List", <<NestedWideInt>>, <<>>),
          Attribute(<<SAMPLER_ATTRIBUTE_NAME>>, "Invalid", <<>>, <<>>),
          Attribute(<<"doc">>, "NameValue", <<>>, <<>>),
          Attribute(<<"serde", "skip">>, "Path", <<>>, <<>>)}

\* ----------------------------------------------------------- run time

\* Option<&Handle<Image>>: 0 is None, h > 0 is Some(handle h).
Handles == 1..MaxHandles

\* An OwnedBindingResource: the variant, and for a texture view or a sampler
\* where it was cloned from: "Image" with the handle of the image in the
\* registry, or "Fallback" for fallback_image; a buffer says what was
\* written to it.
OwnedBindingResource(resource, of, image) ==
    [resource |-> resource, of |-> of, image |-> image]

\* What as_bind_group returns: Ok(PreparedBindGroup {bindings, bind_group,
\* data}) or Err(AsBindGroupError::RetryNextUpdate); NotCalled before any
\* call.  bind_group is the list of (binding, resource) the descriptor
\* handed to create_bind_group held.
Return(tag, bindings, bind_group, data) ==
    [tag |-> tag, bindings |-> bindings, bind_group |-> bind_group, data |-> data]
NotCalled == Return("None", <<>>, <<>>, "")
RetryNextUpdate == Return("RetryNextUpdate", <<>>, <<>>, "")

\* The RenderDevice seen as the numbers of buffers and of bind groups it has
\* been asked to create.
Device(buffers, bind_groups) == [buffers |-> buffers, bind_groups |-> bind_groups]

\* ------------------------------------------------------------------- state

VARIABLES
    ast,                      \* the part of the DeriveInput read so far
    pc,                       \* the position in derive_as_bind_group
    binding_states,
    binding_impls,
    bind_group_entries,
    binding_layouts,
    attr_prepared_data_ident, \* "" for None
    field_struct_impls,
    result,                   \* what derive_as_bind_group returned
    self,                     \* the struct value: per field, its image handle
    images,                   \* the handles RenderAssets<Image> holds an image for
    render_device,            \* what has been created on the RenderDevice
    prepared,                 \* what the last call of as_bind_group returned
    outcomes                  \* what each call so far returned, oldest first

\* The state of derive_as_bind_group, at compile time, and the state the
\* generated as_bind_group runs in.
derive_vars ==
    <<ast, pc, binding_states, binding_impls, bind_group_entries, binding_layouts,
      attr_prepared_data_ident, field_struct_impls, result>>
runtime_vars == <<self, images, render_device, prepared, outcomes>>

vars ==
    <<ast, pc, binding_states, binding_impls, bind_group_entries, binding_layouts,
      attr_prepared_data_ident, field_struct_impls, result,
      self, images, render_device, prepared, outcomes>>

\* At compile time there is no struct value, no registry and no device.
NothingRuns ==
    /\ self = <<>>
    /\ images = {}
    /\ render_device = Device(0, 0)
    /\ prepared = NotCalled
    /\ outcomes = <<>>

\* The locals as one record, for the step operators.
CurrentLocals ==
    Locals(binding_states, binding_impls, bind_group_entries, binding_layouts,
           attr_prepared_data_ident, field_struct_impls, NoError)

\* Result<TokenStream>
Pending == [tag |-> "Pending", err |-> NoError, tokens |-> NoTokens]
Err(e) == [tag |-> "Err", err |-> e, tokens |-> NoTokens]
OkTokens(t) == [tag |-> "Ok", err |-> NoError, tokens |-> t]

\* Store the locals a step produced; a step that set err returns it.
Store(l, next_pc) ==
    /\ binding_states' = l.binding_states
    /\ binding_impls' = l.binding_impls
    /\ bind_group_entries' = l.bind_group_entries
    /\ binding_layouts' = l.binding_layouts
    /\ attr_prepared_data_ident' = l.attr_prepared_data_ident
    /\ field_struct_impls' = l.field_struct_impls
    /\ IF l.err # NoError
       THEN pc' = "done" /\ result' = Err(l.err)
       ELSE pc' = next_pc /\ UNCHANGED result
    /\ UNCHANGED runtime_vars

Init ==
    /\ ast = [attrs |-> <<>>, data |-> "Unread", fields |-> <<>>]
    /\ pc = "attrs"
    /\ binding_states = <<>>
    /\ binding_impls = <<>>
    /\ bind_group_entries = <<>>
    /\ binding_layouts = <<>>
    /\ attr_prepared_data_ident = ""
    /\ field_struct_impls = <<>>
    /\ result = Pending
    /\ NothingRuns

\* The number of field-level attributes read so far.
RECURSIVE CountAttrs(_)
CountAttrs(fields) ==
    IF fields = <<>> THEN 0 ELSE Len(Head(fields).attrs) + CountAttrs(Tail(fields))

\* for attr in &ast.attrs: one iteration.
ReadStructAttr ==
    /\ pc = "attrs"
    /\ CountAttrs(ast.fields) + Len(ast.attrs) < MaxAttrs
    /\ \E attr \in StructAttrChoices :
          /\ ast' = [ast EXCEPT !.attrs = Append(@, attr)]
          /\ Store(StructAttrStep(CurrentLocals, attr), "attrs")

\* Faulty variant of MatchFields: any struct is taken, whatever its fields.
MatchFieldsAnyStruct ==
    /\ pc = "attrs"
    /\ \E data \in DataChoices :
          /\ ast' = [ast EXCEPT !.data = data]
          /\ IF data \in {"NamedStruct", "TupleStruct", "UnitStruct"}
             THEN pc' = "fields" /\ UNCHANGED result
             ELSE pc' = "done"
                  /\ result' = Err(Error("ExpectedNamedFields", 0, 0, 0, "None"))
          /\ UNCHANGED <<binding_states, binding_impls, bind_group_entries,
                         binding_layouts, attr_prepared_data_ident,
                         field_struct_impls>>
          /\ UNCHANGED runtime_vars

\* let fields = match &ast.data: the struct-level loop is over.
MatchFields ==
    /\ pc = "attrs"
    /\ \E data \in DataChoices :
          /\ ast' = [ast EXCEPT !.data = data]
          /\ IF data = "NamedStruct"
             THEN pc' = "fields" /\ UNCHANGED result
             ELSE pc' = "done"
                  /\ result' = Err(Error("ExpectedNamedFields", 0, 0, 0, "None"))
          /\ UNCHANGED <<binding_states, binding_impls, bind_group_entries,
                         binding_layouts, attr_prepared_data_ident,
                         field_struct_impls>>
          /\ UNCHANGED runtime_vars

\* for field in fields.iter() / for attr in &field.attrs: one iteration of
\* the inner loop, on the next attribute of the current field or on the
\* first attribute of the next field that has any.
ReadFieldAttr ==
    /\ pc = "fields"
    /\ CountAttrs(ast.fields) + Len(ast.attrs) < MaxAttrs
    /\ \E attr \in FieldAttrChoices, next_field \in BOOLEAN :
          /\ ast.fields = <<>> => next_field
          /\ LET field_name == IF next_field THEN Len(ast.fields) + 1
                               ELSE Len(ast.fields)
             IN  /\ ast' = [ast EXCEPT !.fields =
                              IF next_field
                              THEN Append(@, [ident |-> field_name, attrs |-> <<attr>>])
                              ELSE [@ EXCEPT ![field_name].attrs = Append(@, attr)]]
                 /\ Store(FieldAttrStep(CurrentLocals, field_name, attr), "fields")

\* Faulty variant of UniformLoop: the slots are visited last to first.
RECURSIVE UniformLoopDescending(_, _)
UniformLoopDescending(l, binding_index) ==
    IF binding_index >= Len(l.binding_states) THEN l
    ELSE UniformStep(UniformLoopDescending(l, binding_index + 1), binding_index)

\* for (binding_index, binding_state) in binding_states.iter().enumerate():
\* the whole loop, slot 0 first.
RECURSIVE UniformLoop(_, _)
UniformLoop(l, binding_index) ==
    IF binding_index >= Len(l.binding_states) THEN l
    ELSE UniformLoop(UniformStep(l, binding_index), binding_index + 1)

\* The field loop is over: produce the impls of the uniform bindings.
ProduceUniformImpls ==
    /\ pc = "fields"
    /\ Store(UniformLoop(CurrentLocals, 0), "assemble")
    /\ UNCHANGED ast

\* Ok(TokenStream::from(quote! { ... }))
Assemble ==
    /\ pc = "assemble"
    /\ pc' = "done"
    /\ result' = OkTokens(GeneratedImpl(CurrentLocals))
    /\ UNCHANGED <<ast, binding_states, binding_impls, bind_group_entries,
                   binding_layouts, attr_prepared_data_ident, field_struct_impls>>
    /\ UNCHANGED runtime_vars

Next ==
    \/ ReadStructAttr
    \/ MatchFields
    \/ ReadFieldAttr
    \/ ProduceUniformImpls
    \/ Assemble

Spec == Init /\ [][Next]_vars

\* ------------------------------------------------- the declarations read

\* The field-level attributes read so far, in the order they were read,
\* each with the field that carries it.
RECURSIVE FieldAttrsOf(_)
FieldAttrsOf(fields) ==
    IF fields = <<>> THEN <<>>
    ELSE [k \in 1..Len(Head(fields).attrs) |->
             [field |-> Head(fields).ident, attr |-> Head(fields).attrs[k]]]
         \o FieldAttrsOf(Tail(fields))

\* What a field-level attribute declares: member says that it is a binding
\* attribute whose index parses, type and index are the binding type and the
\* binding index it names, field is the field that carries it.
Declaration(field, attr) ==
    LET parsed == get_binding_nested_meta(attr)
        type == BindingTypeOf(get_ident(attr))
    IN  [field |-> field,
         member |-> type # "None" /\ parsed.ok,
         type |-> type,
         index |-> parsed.index]

\* The declarations of the field-level attributes read so far, in order.
Declarations ==
    LET attrs == FieldAttrsOf(ast.fields)
    IN  [k \in 1..Len(attrs) |-> Declaration(attrs[k].field, attrs[k].attr)]

IsNonUniform(d) == d.member /\ d.type \in {"Texture", "Sampler"}
IsUniform(d) == d.member /\ d.type = "Uniform"

\* a is a struct-level converted-uniform declaration whose arguments parse.
IsStructUniform(a) ==
    /\ get_ident(a) = UNIFORM_ATTRIBUTE_NAME
    /\ ParseStructUniformArgs(a.tokens).ok

StructIndex(a) == ParseStructUniformArgs(a.tokens).binding_index

\* The binding indices of the struct-level converted-uniform declarations
\* read so far, in order.
RECURSIVE StructIndicesOf(_)
StructIndicesOf(attrs) ==
    IF attrs = <<>> THEN <<>>
    ELSE (IF IsStructUniform(Head(attrs)) THEN <<StructIndex(Head(attrs))>> ELSE <<>>)
         \o StructIndicesOf(Tail(attrs))

StructIndices == StructIndicesOf(ast.attrs)

\* The elements of a sequence, as a set.
Range(seq) == {seq[k] : k \in 1..Len(seq)}

\* The elements of a set of numbers as an ascending sequence.
RECURSIVE Ascending(_)
Ascending(set) ==
    IF set = {} THEN <<>>
    ELSE LET least == CHOOSE x \in set : \A y \in set : x <= y
         IN  <<least>> \o Ascending(set \ {least})

Resolved == pc = "done" /\ result.tag = "Ok"

\* ------------------------------------------------------------------ claims

\* The member declarations at positions i < j of decls name the same
\* binding index.
SameIndex(decls, i, j) ==
    /\ i < j
    /\ decls[i].member /\ decls[j].member
    /\ decls[i].index = decls[j].index

\* C1: whenever two texture or sampler declarations (in any combination and
\* in either order) that name the same binding index have been read,
\* resolution has failed, and the error names the later declaration's field
\* as rejected and the earlier declaration's field and type as the occupant.
C1_NonUniformConflictRejected ==
    LET decls == Declarations
    IN  \A i, j \in 1..Len(decls) :
            (SameIndex(decls, i, j) /\ IsNonUniform(decls[i]) /\ IsNonUniform(decls[j]))
            => result = Err(Error("OccupiedByField", decls[j].field, decls[j].index,
                                  decls[i].field, decls[i].type))

\* C1 witness: a sampler on one field, then a texture on another field at
\* the same index, and the conflict error that names both fields.
C1_Witness ==
    LET decls == Declarations
    IN  \E i, j \in 1..Len(decls) :
            /\ SameIndex(decls, i, j)
            /\ decls[i].type = "Sampler" /\ decls[j].type = "Texture"
            /\ decls[i].field # decls[j].field
            /\ result.tag = "Err" /\ result.err.kind = "OccupiedByField"
            /\ result.err.field = decls[j].field
            /\ result.err.occupant = decls[i].field

\* C2: no field-level attribute is read before the struct-level loop is
\* over; every struct-level converted-uniform declaration read holds its
\* slot as OccupiedConvertedUniform; and whenever a member declaration of
\* any kind at such an index has been read, resolution has failed with the
\* error that names the struct-level uniform binding as the occupant.
C2_StructUniformSlotRejectsMembers ==
    LET decls == Declarations
    IN  /\ pc = "attrs" => ast.fields = <<>>
        /\ \A n \in Range(StructIndices) :
              /\ n < Len(binding_states)
              /\ StateAt(binding_states, n) = OccupiedConvertedUniform
              /\ \A j \in 1..Len(decls) :
                    (decls[j].member /\ decls[j].index = n)
                    => result = Err(Error("OccupiedByStructUniform", decls[j].field,
                                          n, 0, "StructLevelUniform"))

\* C2 witness: a struct-level uniform and a uniform member at its index,
\* rejected with the struct-level occupant.
C2_Witness ==
    LET decls == Declarations
    IN  \E n \in Range(StructIndices), j \in 1..Len(decls) :
            /\ IsUniform(decls[j])
            /\ decls[j].index = n
            /\ result.tag = "Err"
            /\ result.err.occupant_type = "StructLevelUniform"

\* The fields of the uniform member declarations at binding index n, in
\* declaration order.
UniformFieldsAt(decls, n) ==
    LET at(d) == IsUniform(d) /\ d.index = n
        uniforms == SelectSeq(decls, at)
    IN  [k \in 1..Len(uniforms) |-> uniforms[k].field]

\* Nothing but uniform members is declared at binding index n.
OnlyUniformAt(decls, n) ==
    /\ n \notin Range(StructIndices)
    /\ \A k \in 1..Len(decls) : IsNonUniform(decls[k]) => decls[k].index # n

\* The positions of seq whose element is bound to index n.
PositionsOf(seq, n) == {k \in 1..Len(seq) : seq[k].binding = n}

\* The error, if any, was returned while the last field attribute read was
\* being applied.
FailedOnLastFieldAttr ==
    /\ result.tag = "Err"
    /\ result.err.kind \notin {"StructUniformFormat", "ExpectedNamedFields"}

\* C3: two or more uniform members at an index where nothing else is
\* declared never fail; their slot is OccupiedMergableUniform with exactly
\* those fields in declaration order; and on success the slot has exactly
\* one layout entry and one bind group entry, whose buffer is written from
\* the packed struct of those fields in that order.  An aggregate of
\* nothing but uniform members resolves.
C3_UniformsMerge ==
    LET decls == Declarations
    IN  /\ \A n \in Indices :
              LET members == UniformFieldsAt(decls, n)
              IN  (Len(members) >= 2 /\ OnlyUniformAt(decls, n))
                  => /\ FailedOnLastFieldAttr
                          => ~(/\ IsUniform(decls[Len(decls)])
                               /\ decls[Len(decls)].index = n)
                     /\ n < Len(binding_states)
                     /\ StateAt(binding_states, n) = OccupiedMergableUniform(members)
                     /\ Resolved
                          => /\ Cardinality(PositionsOf(result.tokens.layout_entries, n)) = 1
                             /\ Cardinality(PositionsOf(result.tokens.entries, n)) = 1
                             /\ \A k \in PositionsOf(result.tokens.entries, n) :
                                   /\ result.tokens.entries[k].resource = k - 1
                                   /\ result.tokens.bindings[k]
                                         = BindingImpl("Buffer", "UniformStruct",
                                                       members, "")
                                   /\ result.tokens.layout_entries[k].min_size_of
                                         = SizeOf("UniformStruct", "", members)
                             /\ \E k \in 1..Len(result.tokens.field_struct_impls) :
                                   result.tokens.field_struct_impls[k]
                                       = [binding_index |-> n, fields |-> members]
        /\ (/\ pc = "done"
            /\ ast.data = "NamedStruct"
            /\ \A k \in 1..Len(ast.attrs) :
                  get_ident(ast.attrs[k]) # UNIFORM_ATTRIBUTE_NAME
            /\ \A k \in 1..Len(decls) : IsUniform(decls[k]))
           => result.tag = "Ok"

\* C3 witness: three uniform members of three fields merged at one index,
\* resolved.
C3_Witness ==
    LET decls == Declarations
    IN  /\ Resolved
        /\ \E n \in Indices :
              /\ Len(UniformFieldsAt(decls, n)) = 3
              /\ Cardinality(Range(UniformFieldsAt(decls, n))) = 3
              /\ OnlyUniformAt(decls, n)

\* C4: whenever a uniform member and a texture or sampler member that name
\* the same binding index have been read, resolution has failed on the
\* later of the two: a texture or sampler aimed at a mergable uniform slot
\* is rejected as occupied by a Uniform, a uniform aimed at an Occupied slot
\* is rejected as occupied by that slot's field.
C4_UniformNeverSharesSlot ==
    LET decls == Declarations
    IN  \A i, j \in 1..Len(decls) :
            (SameIndex(decls, i, j) /\ IsUniform(decls[i]) # IsUniform(decls[j]))
            => result = IF IsUniform(decls[i])
                        THEN Err(Error("OccupiedByUniform", decls[j].field,
                                       decls[j].index, 0, "Uniform"))
                        ELSE Err(Error("OccupiedByField", decls[j].field,
                                       decls[j].index, decls[i].field, decls[i].type))

\* C4 witness: two merged uniform members, then a texture at their index,
\* rejected.
C4_Witness ==
    LET decls == Declarations
    IN  \E i, j \in 1..Len(decls) :
            /\ SameIndex(decls, i, j)
            /\ IsUniform(decls[i]) /\ decls[j].type = "Texture"
            /\ Len(UniformFieldsAt(decls, decls[i].index)) = 2
            /\ result.tag = "Err" /\ result.err.kind = "OccupiedByUniform"

\* The binding indices of the member declarations read so far.
MemberIndices(decls) == {decls[k].index : k \in {n \in 1..Len(decls) : decls[n].member}}

\* No two elements of seq are bound to the same index.
DistinctBindings(seq) ==
    \A i, j \in 1..Len(seq) : i # j => seq[i].binding # seq[j].binding

\* C5: on success the binding indices of the layout entries, and of the bind
\* group entries, are exactly the indices declared at struct level or member
\* level, each index once.
C5_EmittedIndicesAreDeclaredOnce ==
    Resolved
    => LET declared == Range(StructIndices) \cup MemberIndices(Declarations)
           layout == result.tokens.layout_entries
           entries == result.tokens.entries
       IN  /\ {layout[k].binding : k \in 1..Len(layout)} = declared
           /\ {entries[k].binding : k \in 1..Len(entries)} = declared
           /\ DistinctBindings(layout)
           /\ DistinctBindings(entries)

\* C6 as stated: on success the layout entries are listed in ascending order
\* of binding index.
C6_LayoutAscending ==
    Resolved
    => LET layout == result.tokens.layout_entries
       IN  \A i, j \in 1..Len(layout) : i < j => layout[i].binding <= layout[j].binding

\* The layout entry of a member-level uniform slot: its minimum size is
\* taken from a field's type or from the packed struct.
IsMergedUniformLayout(entry) ==
    entry.ty = "Buffer" /\ entry.min_size_of.kind \in {"FieldTy", "UniformStruct"}

\* C6 as amended: on success the layout entries of the member-level uniform
\* slots are listed in strictly ascending order of binding index, after
\* every layout entry of a struct-level uniform, a texture or a sampler.
C6_UniformLayoutAscending ==
    Resolved
    => LET layout == result.tokens.layout_entries
       IN  \A i, j \in 1..Len(layout) :
              (i < j /\ IsMergedUniformLayout(layout[i]))
              => /\ IsMergedUniformLayout(layout[j])
                 /\ layout[i].binding < layout[j].binding

\* C6 witness: a uniform member at index 1 declared before a uniform member
\* at index 0, resolved into two layout entries.
C6_Witness ==
    LET decls == Declarations
    IN  /\ Resolved
        /\ Len(decls) >= 2
        /\ IsUniform(decls[1]) /\ decls[1].index = 1
        /\ IsUniform(decls[2]) /\ decls[2].index = 0
        /\ Len(SelectSeq(result.tokens.layout_entries, IsMergedUniformLayout)) = 2

\* The kind of the declaration a binding impl was generated for.
KindOfImpl(impl) ==
    CASE impl.from = "ConvertedShaderType" -> "ConvertedUniform"
      [] impl.from \in {"Field", "UniformStruct"} -> "Uniform"
      [] impl.resource = "TextureView" -> "Texture"
      [] impl.resource = "Sampler" -> "Sampler"

\* The entry sequence C7 describes: the struct-level uniforms in attribute
\* order, the textures and samplers in declaration order, the uniform slots
\* in ascending order of binding index.
ExpectedEntries(decls) ==
    LET struct == StructIndices
        direct == SelectSeq(decls, IsNonUniform)
        merged == Ascending({decls[k].index : k \in {n \in 1..Len(decls) :
                                                       IsUniform(decls[n])}})
    IN  [k \in 1..Len(struct) |-> [binding |-> struct[k], kind |-> "ConvertedUniform"]]
        \o [k \in 1..Len(direct) |-> [binding |-> direct[k].index,
                                      kind |-> direct[k].type]]
        \o [k \in 1..Len(merged) |-> [binding |-> merged[k], kind |-> "Uniform"]]

\* C7: on success the bind group entries, with the kind of the binding each
\* reads, are the struct-level uniforms and the textures and samplers in the
\* order their declarations were read, then the merged uniforms in ascending
\* order of binding index.
C7_EntrySequence ==
    Resolved
    => LET expected == ExpectedEntries(Declarations)
           entries == result.tokens.entries
           bindings == result.tokens.bindings
       IN  /\ Len(entries) = Len(expected)
           /\ Len(bindings) = Len(expected)
           /\ \A k \in 1..Len(expected) :
                 /\ entries[k].binding = expected[k].binding
                 /\ KindOfImpl(bindings[k]) = expected[k].kind

\* C7 witness: uniform(0) on a field, texture(1) on a second, uniform(0) on
\* a third, resolved to the entries [texture(1), uniform(0)].
C7_Witness ==
    LET decls == Declarations
    IN  /\ Resolved
        /\ Len(decls) = 3
        /\ IsUniform(decls[1]) /\ decls[1].index = 0
        /\ decls[2].member /\ decls[2].type = "Texture" /\ decls[2].index = 1
        /\ IsUniform(decls[3]) /\ decls[3].index = 0
        /\ Len(result.tokens.entries) = 2
        /\ result.tokens.entries[1].binding = 1
        /\ result.tokens.entries[2].binding = 0

\* C8: when two struct-level converted-uniform declarations name the same
\* binding index, resolution fails.
C8_StructUniformConflictRejected ==
    LET struct == StructIndices
    IN  (/\ pc = "done"
         /\ \E i, j \in 1..Len(struct) : i < j /\ struct[i] = struct[j])
        => result.tag = "Err"

\* The items after the binding index are not ones the declaration's kind
\* accepts: any item on a uniform, items the texture or the sampler parser
\* rejects.
BadOptions(attr) ==
    LET parsed == get_binding_nested_meta(attr)
        type == BindingTypeOf(get_ident(attr))
    IN  /\ parsed.ok
        /\ CASE type = "Uniform" -> parsed.rest # <<>>
             [] type = "Texture" -> ~get_texture_attrs(parsed.rest).ok
             [] type = "Sampler" -> ~get_sampler_attrs(parsed.rest).ok
             [] OTHER -> FALSE

\* a is a bind_group_data attribute whose argument is not one identifier.
IsMalformedData(a) ==
    /\ get_ident(a) = BIND_GROUP_DATA_ATTRIBUTE_NAME
    /\ ~ParsePreparedDataIdent(a.tokens).ok

\* Some declaration read so far is conflicting or malformed.
Flawed ==
    LET decls == Declarations
        attrs == FieldAttrsOf(ast.fields)
        struct == StructIndices
    IN  \/ \E i, j \in 1..Len(struct) : i < j /\ struct[i] = struct[j]
        \/ \E k \in 1..Len(decls) : decls[k].member /\ decls[k].index \in Range(struct)
        \/ \E i, j \in 1..Len(decls) :
              SameIndex(decls, i, j) /\ ~(IsUniform(decls[i]) /\ IsUniform(decls[j]))
        \/ \E k \in 1..Len(attrs) :
              \/ get_ident(attrs[k].attr) = ""
              \/ decls[k].type # "None" /\ ~decls[k].member
              \/ BadOptions(attrs[k].attr)
        \/ \E k \in 1..Len(ast.attrs) :
              \/ get_ident(ast.attrs[k]) = UNIFORM_ATTRIBUTE_NAME
                   /\ ~IsStructUniform(ast.attrs[k])
              \/ IsMalformedData(ast.attrs[k])
        \/ ast.data \notin {"Unread", "NamedStruct"}

\* C9: when resolution is over and some declaration was conflicting or
\* malformed, the result is an error and carries no generated item.
C9_AllOrNothing ==
    (pc = "done" /\ Flawed) => (result.tag = "Err" /\ result.tokens = NoTokens)

\* C10: when a bind_group_data attribute whose argument is not one
\* identifier was read, resolution ends in an error.
C10_MalformedDataRejected ==
    (pc = "done" /\ \E k \in 1..Len(ast.attrs) : IsMalformedData(ast.attrs[k]))
    => result.tag = "Err"

\* ------------------------------------------- one member and its options

\* The items a declaration may carry after its binding index: every
\* documented key with every word of its vocabulary and with a word outside
\* it, a documented key with a literal of the wrong shape, a key no
\* declaration kind documents, a bare path, a bare literal.
ItemChoices ==
    {NameValueStr(DIMENSION, s) :
        s \in {DIM_1D, DIM_2D, DIM_2D_ARRAY, DIM_3D, DIM_CUBE, DIM_CUBE_ARRAY, "4d"}}
    \cup {NameValueStr(SAMPLE_TYPE, s) : s \in {FLOAT, DEPTH, S_INT, U_INT, "f32"}}
    \cup {NameValueBool(MULTISAMPLED, b) : b \in BOOLEAN}
    \cup {NameValueBool(FILTERABLE, b) : b \in BOOLEAN}
    \cup {NameValueStr(SAMPLER_TYPE, s) :
            s \in {FILTERING, NON_FILTERING, COMPARISON, "linear"}}
    \cup {NameValueBool(DIMENSION, TRUE),
          NameValueStr(FILTERABLE, "true"),
          NameValueStr("visibility", "vertex"),
          NestedPath("srgb"),
          NestedStr(DIM_2D)}

\* The sequences of at most n items.
RECURSIVE ItemSeqs(_)
ItemSeqs(n) ==
    IF n = 0 THEN {<<>>}
    ELSE LET shorter == ItemSeqs(n - 1)
         IN  shorter \cup {Append(items, item) : items \in shorter, item \in ItemChoices}

\* A binding attribute of any of the three names at binding index 0 with at
\* most MaxItems items after the index.
MemberAttrChoices ==
    {Attribute(<<name>>, "List", <<NestedInt(0)>> \o items, <<>>) :
        name \in BindingAttributeNames, items \in ItemSeqs(MaxItems)}

\* A struct with named fields and no struct-level attribute, after the
\* struct-level loop and the match on ast.data.
MemberInit ==
    /\ ast = [attrs |-> <<>>, data |-> "NamedStruct", fields |-> <<>>]
    /\ pc = "fields"
    /\ binding_states = <<>>
    /\ binding_impls = <<>>
    /\ bind_group_entries = <<>>
    /\ binding_layouts = <<>>
    /\ attr_prepared_data_ident = ""
    /\ field_struct_impls = <<>>
    /\ result = Pending
    /\ NothingRuns

\* The one iteration of the field loop of a struct whose only field carries
\* one binding attribute.
ReadMemberAttr ==
    /\ pc = "fields"
    /\ ast.fields = <<>>
    /\ \E attr \in MemberAttrChoices :
          /\ ast' = [ast EXCEPT !.fields = <<[ident |-> 1, attrs |-> <<attr>>]>>]
          /\ Store(FieldAttrStep(CurrentLocals, 1, attr), "fields")

MemberNext ==
    \/ ReadMemberAttr
    \/ ProduceUniformImpls
    \/ Assemble

\* Resolution of a struct with at most one member declaration, whose options
\* range over ItemSeqs(MaxItems).
MemberSpec == MemberInit /\ [][MemberNext]_vars

\* The member declaration that was read, and what it says.
TheMember == ast.fields[1].attrs[1]
MemberRead == Len(ast.fields) = 1 /\ Len(ast.fields[1].attrs) = 1
MemberType == BindingTypeOf(get_ident(TheMember))
MemberItems == Tail(TheMember.nested)

\* The keys a declaration kind documents.
DocumentedKeys(type) ==
    CASE type = "Texture" -> {DIMENSION, SAMPLE_TYPE, MULTISAMPLED, FILTERABLE}
      [] type = "Sampler" -> {SAMPLER_TYPE}
      [] OTHER -> {}

\* Some item is not a name/value pair, or names a key the kind does not
\* document.
HasUndocumentedItem(type, items) ==
    \E k \in 1..Len(items) :
        \/ items[k].form # "NameValue"
        \/ items[k].path \notin DocumentedKeys(type)

\* C11: when the member declaration that was read carries, after its binding
\* index, an item that is not a name/value pair or whose key its kind does
\* not document (for a uniform: any item), resolution ends in an error.
C11_OnlyDocumentedKeys ==
    (pc = "done" /\ MemberRead /\ HasUndocumentedItem(MemberType, MemberItems))
    => result.tag = "Err"

\* The part of C11 the code keeps: a texture or sampler declaration with
\* such an item is rejected.
C11_TextureSamplerKeys ==
    (/\ pc = "done" /\ MemberRead
     /\ MemberType \in {"Texture", "Sampler"}
     /\ HasUndocumentedItem(MemberType, MemberItems))
    => result.tag = "Err"

\* Some item names the key.
HasKey(items, key) ==
    \E k \in 1..Len(items) : items[k].form = "NameValue" /\ items[k].path = key

\* The texture options of the layout entry the resolved member produced.
ResolvedTexture == result.tokens.layout_entries[1].texture

\* C12: when a texture declaration without a multisampled item has been
\* resolved, its layout entry says multisampled = true.
C12_MultisampledDefaultsTrue ==
    (/\ Resolved /\ MemberRead
     /\ MemberType = "Texture"
     /\ ~HasKey(MemberItems, MULTISAMPLED))
    => (/\ Len(result.tokens.layout_entries) = 1
        /\ ResolvedTexture.multisampled = TRUE)

\* The words a texture declaration's string options may take.
DimensionWords == {DIM_1D, DIM_2D, DIM_2D_ARRAY, DIM_3D, DIM_CUBE, DIM_CUBE_ARRAY}
SampleTypeWords == {FLOAT, DEPTH, S_INT, U_INT}

\* The item is one a texture declaration documents: one of its four keys
\* with a literal of the key's shape, a string option with a word of its
\* vocabulary.
WellFormedTextureItem(item) ==
    /\ item.form = "NameValue"
    /\ CASE item.path = DIMENSION -> item.lit_t = "Str" /\ item.s \in DimensionWords
         [] item.path = SAMPLE_TYPE -> item.lit_t = "Str" /\ item.s \in SampleTypeWords
         [] item.path \in {MULTISAMPLED, FILTERABLE} -> item.lit_t = "Bool"
         [] OTHER -> FALSE

\* The last item that names the key (there is one).
LastOf(items, key) ==
    LET at == {k \in 1..Len(items) : items[k].form = "NameValue" /\ items[k].path = key}
    IN  items[CHOOSE k \in at : \A j \in at : j <= k]

\* The sample type word the declaration finally stands for: the last one
\* written, float when none is.
WrittenSampleType(items) ==
    IF HasKey(items, SAMPLE_TYPE) THEN LastOf(items, SAMPLE_TYPE).s ELSE FLOAT

\* C13: when resolution of a texture declaration is over whose items are all
\* well formed and which writes filterable, anywhere among its items, then:
\* if the sample type it finally stands for is float (written or by
\* default), resolution succeeded and the layout entry's sample type is
\* float with the filterable flag that was written (last); otherwise
\* resolution failed because filterable requires float.
C13_FilterableJudgedAtEnd ==
    (/\ pc = "done" /\ MemberRead
     /\ MemberType = "Texture"
     /\ \A k \in 1..Len(MemberItems) : WellFormedTextureItem(MemberItems[k])
     /\ HasKey(MemberItems, FILTERABLE))
    => IF WrittenSampleType(MemberItems) = FLOAT
       THEN /\ result.tag = "Ok"
            /\ Len(result.tokens.layout_entries) = 1
            /\ ResolvedTexture.sample_type =
                  SampleType("Float", LastOf(MemberItems, FILTERABLE).b)
       ELSE /\ result.tag = "Err"
            /\ result.err.kind = "FilterableRequiresFloat"

\* filterable = false written before sample_type = "float" has resolved to
\* float with filterable false.
C13_Witness ==
    /\ Resolved /\ MemberRead
    /\ MemberType = "Texture"
    /\ MemberItems = <<NameValueBool(FILTERABLE, FALSE), NameValueStr(SAMPLE_TYPE, FLOAT)>>
    /\ ResolvedTexture.sample_type = SampleType("Float", FALSE)

\* filterable = true written before sample_type = "depth" has been rejected.
C13_RejectedWitness ==
    /\ pc = "done" /\ MemberRead
    /\ MemberType = "Texture"
    /\ MemberItems = <<NameValueBool(FILTERABLE, TRUE), NameValueStr(SAMPLE_TYPE, DEPTH)>>
    /\ result.tag = "Err"

\* The variant each word of the two vocabularies stands for
\* (BindingTextureDimension, BindingTextureSampleType).
DimensionOf(word) ==
    CASE word = DIM_1D -> "D1"
      [] word = DIM_2D -> "D2"
      [] word = DIM_2D_ARRAY -> "D2Array"
      [] word = DIM_3D -> "D3"
      [] word = DIM_CUBE -> "Cube"
      [] word = DIM_CUBE_ARRAY -> "CubeArray"

SampleTypeOf(word) ==
    CASE word = FLOAT -> SampleType("Float", TRUE)
      [] word = DEPTH -> SampleType("Depth", FALSE)
      [] word = S_INT -> SampleType("Sint", FALSE)
      [] word = U_INT -> SampleType("Uint", FALSE)

\* The item writes dimension or sample_type with a string, of the
\* vocabulary or not, or is a well-formed multisampled item.
IsStringOptionItem(item) ==
    /\ item.form = "NameValue"
    /\ \/ item.path \in {DIMENSION, SAMPLE_TYPE} /\ item.lit_t = "Str"
       \/ item.path = MULTISAMPLED /\ item.lit_t = "Bool"

\* The dimension word the declaration finally stands for: the last one
\* written, 2d when none is.
WrittenDimension(items) ==
    IF HasKey(items, DIMENSION) THEN LastOf(items, DIMENSION).s ELSE DIM_2D

\* C14: when resolution of a texture declaration is over whose items write
\* only dimension and sample_type strings (and multisampled), resolution
\* succeeded exactly when every dimension written is one of 1d, 2d,
\* 2d_array, 3d, cube, cube_array and every sample_type written is one of
\* float, depth, s_int, u_int; on success the layout entry has the variant
\* of the dimension written (2d when none is) and the variant of the
\* sample_type written (float with filterable = true when none is).  What a
\* filterable item does to the sample type is C13.
C14_VocabularyResolves ==
    (/\ pc = "done" /\ MemberRead
     /\ MemberType = "Texture"
     /\ \A k \in 1..Len(MemberItems) : IsStringOptionItem(MemberItems[k]))
    => LET items == MemberItems
           known == \A k \in 1..Len(items) :
                       /\ items[k].path = DIMENSION => items[k].s \in DimensionWords
                       /\ items[k].path = SAMPLE_TYPE => items[k].s \in SampleTypeWords
       IN  /\ result.tag = "Ok" <=> known
           /\ ~known => /\ result.tag = "Err"
                        /\ result.err.kind \in {"NotAValidDimension",
                                                "NotAValidSampleType"}
           /\ known => /\ Len(result.tokens.layout_entries) = 1
                       /\ ResolvedTexture.dimension = DimensionOf(WrittenDimension(items))
                       /\ ResolvedTexture.sample_type =
                             SampleTypeOf(WrittenSampleType(items))

\* dimension = "cube_array" and sample_type = "u_int" have resolved to
\* CubeArray and Uint.
C14_Witness ==
    /\ Resolved /\ MemberRead
    /\ MemberType = "Texture"
    /\ MemberItems = <<NameValueStr(DIMENSION, DIM_CUBE_ARRAY),
                       NameValueStr(SAMPLE_TYPE, U_INT)>>
    /\ ResolvedTexture.dimension = "CubeArray"
    /\ ResolvedTexture.sample_type = SampleType("Uint", FALSE)

\* Nothing written: 2d and float with filterable = true.
C14_DefaultsWitness ==
    /\ Resolved /\ MemberRead
    /\ MemberType = "Texture"
    /\ MemberItems = <<>>
    /\ ResolvedTexture.dimension = "D2"
    /\ ResolvedTexture.sample_type = SampleType("Float", TRUE)

\* dimension = "4d" has been rejected.
C14_RejectedWitness ==
    /\ pc = "done" /\ MemberRead
    /\ MemberType = "Texture"
    /\ MemberItems = <<NameValueStr(DIMENSION, "4d")>>
    /\ result.tag = "Err"
    /\ result.err.kind = "NotAValidDimension"

\* The variant each word of the sampler vocabulary stands for
\* (SamplerBindingType).
SamplerWords == {FILTERING, NON_FILTERING, COMPARISON}

SamplerTypeOf(word) ==
    CASE word = FILTERING -> "Filtering"
      [] word = NON_FILTERING -> "NonFiltering"
      [] word = COMPARISON -> "Comparison"

\* The sampler type word the declaration finally stands for: the last one
\* written, filtering when none is.
WrittenSamplerType(items) ==
    IF HasKey(items, SAMPLER_TYPE) THEN LastOf(items, SAMPLER_TYPE).s ELSE FILTERING

\* C15: when resolution of a sampler declaration is over whose items write
\* only sampler_type strings, resolution succeeded exactly when every
\* sampler_type written is one of filtering, non_filtering, comparison; on
\* success the layout entry has the variant of the sampler_type written,
\* Filtering when none is.
C15_SamplerTypeResolves ==
    (/\ pc = "done" /\ MemberRead
     /\ MemberType = "Sampler"
     /\ \A k \in 1..Len(MemberItems) :
           /\ MemberItems[k].form = "NameValue"
           /\ MemberItems[k].path = SAMPLER_TYPE
           /\ MemberItems[k].lit_t = "Str")
    => LET items == MemberItems
           known == \A k \in 1..Len(items) : items[k].s \in SamplerWords
       IN  /\ result.tag = "Ok" <=> known
           /\ ~known => /\ result.tag = "Err"
                        /\ result.err.kind = "NotAValidSamplerType"
           /\ known => /\ Len(result.tokens.layout_entries) = 1
                       /\ result.tokens.layout_entries[1].sampler =
                             SamplerTypeOf(WrittenSamplerType(items))

\* sampler_type = "comparison" has resolved to Comparison.
C15_Witness ==
    /\ Resolved /\ MemberRead
    /\ MemberType = "Sampler"
    /\ MemberItems = <<NameValueStr(SAMPLER_TYPE, COMPARISON)>>
    /\ result.tokens.layout_entries[1].sampler = "Comparison"

\* Nothing written: Filtering.
C15_DefaultWitness ==
    /\ Resolved /\ MemberRead
    /\ MemberType = "Sampler"
    /\ MemberItems = <<>>
    /\ result.tokens.layout_entries[1].sampler = "Filtering"

\* sampler_type = "linear" has been rejected.
C15_RejectedWitness ==
    /\ pc = "done" /\ MemberRead
    /\ MemberType = "Sampler"
    /\ MemberItems = <<NameValueStr(SAMPLER_TYPE, "linear")>>
    /\ result.tag = "Err"

\* ----------------------------------------------- the derive as a function

\* for attr in &ast.attrs: the whole loop, up to the first error.
RECURSIVE StructAttrsLoop(_, _)
StructAttrsLoop(l, attrs) ==
    IF attrs = <<>> \/ l.err # NoError THEN l
    ELSE StructAttrsLoop(StructAttrStep(l, Head(attrs)), Tail(attrs))

\* for attr in &field.attrs: the whole inner loop for one field.
RECURSIVE FieldAttrsLoop(_, _, _)
FieldAttrsLoop(l, field_name, attrs) ==
    IF attrs = <<>> \/ l.err # NoError THEN l
    ELSE FieldAttrsLoop(FieldAttrStep(l, field_name, Head(attrs)), field_name,
                        Tail(attrs))

\* for field in fields.iter(): the whole outer loop.
RECURSIVE FieldsLoop(_, _)
FieldsLoop(l, fields) ==
    IF fields = <<>> \/ l.err # NoError THEN l
    ELSE FieldsLoop(FieldAttrsLoop(l, Head(fields).ident, Head(fields).attrs),
                    Tail(fields))

\* derive_as_bind_group on a whole derive input: its locals where it
\* returns, with err set when it returns an error.
DeriveLocals(input) ==
    LET start == Locals(<<>>, <<>>, <<>>, <<>>, "", <<>>, NoError)
        after_attrs == StructAttrsLoop(start, input.attrs)
        after_fields == FieldsLoop(after_attrs, input.fields)
    IN  IF after_attrs.err # NoError THEN after_attrs
        ELSE IF input.data # "NamedStruct"
        THEN [after_attrs EXCEPT !.err = Error("ExpectedNamedFields", 0, 0, 0, "None")]
        ELSE IF after_fields.err # NoError THEN after_fields
        ELSE UniformLoop(after_fields, 0)

\* derive_as_bind_group on a whole derive input: what it returns.
derive_as_bind_group(input) ==
    LET l == DeriveLocals(input)
    IN  IF l.err # NoError THEN Err(l.err) ELSE OkTokens(GeneratedImpl(l))

\* The run that read ast step by step ended with the locals and the result
\* derive_as_bind_group has on ast as a whole.
StepsAgreeWithFunction ==
    pc = "done" =>
        /\ result = derive_as_bind_group(ast)
        /\ CurrentLocals = [DeriveLocals(ast) EXCEPT !.err = NoError]

\* ------------------------------------------- the generated as_bind_group

\* One element of `vec![#(#binding_impls,)*]` evaluated: the resource, or
\* retry when `?` returns RetryNextUpdate.  A buffer is written and created
\* on the device; a texture view or sampler is cloned from the image the
\* field's handle names, or from fallback_image when the field holds none.
EvalBindingImpl(impl, value, registry) ==
    IF impl.from = "Handle"
    THEN LET handle == value[impl.fields[1]]
         IN  IF handle # 0
             THEN IF handle \in registry
                  THEN [retry |-> FALSE,
                        v |-> OwnedBindingResource(impl.resource, "Image", handle)]
                  ELSE [retry |-> TRUE,
                        v |-> OwnedBindingResource("None", "None", 0)]
             ELSE [retry |-> FALSE,
                   v |-> OwnedBindingResource(impl.resource, "Fallback", 0)]
    ELSE [retry |-> FALSE, v |-> OwnedBindingResource(impl.resource, impl.from, 0)]

\* Faulty variant of EvalBindings: a binding whose image is not in the
\* registry is left out and the next ones are still built.
RECURSIVE EvalBindingsSkipping(_, _, _, _)
EvalBindingsSkipping(impls, value, registry, built) ==
    IF impls = <<>> THEN [retry |-> FALSE, bindings |-> built]
    ELSE LET one == EvalBindingImpl(Head(impls), value, registry)
         IN  IF one.retry
             THEN EvalBindingsSkipping(Tail(impls), value, registry, built)
             ELSE EvalBindingsSkipping(Tail(impls), value, registry,
                                       Append(built, one.v))

\* `let bindings = vec![...]`: the elements first to last, up to the first
\* that returns; built holds the resources built so far.
RECURSIVE EvalBindings(_, _, _, _)
EvalBindings(impls, value, registry, built) ==
    IF impls = <<>> THEN [retry |-> FALSE, bindings |-> built]
    ELSE LET one == EvalBindingImpl(Head(impls), value, registry)
         IN  IF one.retry THEN [retry |-> TRUE, bindings |-> built]
             ELSE EvalBindings(Tail(impls), value, registry, Append(built, one.v))

\* The number of buffers among the resources.
RECURSIVE CountBuffers(_)
CountBuffers(bindings) ==
    IF bindings = <<>> THEN 0
    ELSE (IF Head(bindings).resource = "Buffer" THEN 1 ELSE 0)
         + CountBuffers(Tail(bindings))

\* Faulty variant of AsBindGroupBody: the bind group is created on the
\* device from the bindings built so far, before the retry is returned.
AsBindGroupBodyCreatesFirst(tokens, value, registry) ==
    LET evaluated == EvalBindings(tokens.bindings, value, registry, <<>>)
        bindings == evaluated.bindings
        bind_group ==
            [k \in 1..Len(tokens.entries) |->
                [binding |-> tokens.entries[k].binding,
                 resource |-> bindings[tokens.entries[k].resource + 1]]]
    IN  IF evaluated.retry
        THEN [ret |-> RetryNextUpdate,
              buffers |-> CountBuffers(bindings), bind_groups |-> 1]
        ELSE IF \E k \in 1..Len(tokens.entries) :
                    tokens.entries[k].resource >= Len(bindings)
        THEN [ret |-> Return("Panic", <<>>, <<>>, ""),
              buffers |-> CountBuffers(bindings), bind_groups |-> 0]
        ELSE [ret |-> Return("Ok", bindings, bind_group, tokens.get_prepared_data),
              buffers |-> CountBuffers(bindings), bind_groups |-> 1]

\* The body of the generated as_bind_group for the struct value and the
\* registry it is called with: what it returns, and what it creates on the
\* device on the way.  An entry that indexes bindings at or beyond its
\* length panics.
AsBindGroupBody(tokens, value, registry) ==
    LET evaluated == EvalBindings(tokens.bindings, value, registry, <<>>)
        bindings == evaluated.bindings
        bind_group ==
            [k \in 1..Len(tokens.entries) |->
                [binding |-> tokens.entries[k].binding,
                 resource |-> bindings[tokens.entries[k].resource + 1]]]
    IN  IF evaluated.retry
        THEN [ret |-> RetryNextUpdate,
              buffers |-> CountBuffers(bindings), bind_groups |-> 0]
        ELSE IF \E k \in 1..Len(tokens.entries) :
                    tokens.entries[k].resource >= Len(bindings)
        THEN [ret |-> Return("Panic", <<>>, <<>>, ""),
              buffers |-> CountBuffers(bindings), bind_groups |-> 0]
        ELSE [ret |-> Return("Ok", bindings, bind_group, tokens.get_prepared_data),
              buffers |-> CountBuffers(bindings), bind_groups |-> 1]

\* ---------------------------------------- a struct value being prepared

\* The binding attributes one field may carry.
MemberKinds ==
    {<<UNIFORM_ATTRIBUTE_NAME>>, <<TEXTURE_ATTRIBUTE_NAME>>, <<SAMPLER_ATTRIBUTE_NAME>>,
     <<TEXTURE_ATTRIBUTE_NAME, SAMPLER_ATTRIBUTE_NAME>>}

\* The sequences of at most n elements of MemberKinds.
RECURSIVE KindSeqs(_)
KindSeqs(n) ==
    IF n = 0 THEN {<<>>}
    ELSE LET shorter == KindSeqs(n - 1)
         IN  shorter \cup {Append(kinds, kind) : kinds \in shorter, kind \in MemberKinds}

\* Fields ident, ident + 1, ... carrying the attributes kinds names, each
\* attribute at the next binding index from binding_index on.
RECURSIVE FieldsOfKinds(_, _, _)
FieldsOfKinds(kinds, ident, binding_index) ==
    IF kinds = <<>> THEN <<>>
    ELSE LET names == Head(kinds)
             attrs == [k \in 1..Len(names) |->
                          Attribute(<<names[k]>>, "List",
                                    <<NestedInt(binding_index + k - 1)>>, <<>>)]
         IN  <<[ident |-> ident, attrs |-> attrs]>>
             \o FieldsOfKinds(Tail(kinds), ident + 1, binding_index + Len(names))

\* The structs whose as_bind_group is called: at most MaxMembers fields,
\* with or without a struct-level converted uniform at binding 0.
PreparedStructs ==
    {[attrs |-> <<>>, data |-> "NamedStruct", fields |-> FieldsOfKinds(kinds, 1, 0)] :
        kinds \in KindSeqs(MaxMembers)}
    \cup
    {[attrs |-> <<Attribute(<<UNIFORM_ATTRIBUTE_NAME>>, "List", <<>>,
                            <<LitIntTok(0), CommaTok, IdentTok("ConvType")>>)>>,
      data |-> "NamedStruct",
      fields |-> FieldsOfKinds(kinds, 1, 1)] :
        kinds \in KindSeqs(MaxMembers)}

\* The field carries a texture or a sampler attribute: its value holds an
\* optional image handle.
HoldsHandle(field) ==
    \E k \in 1..Len(field.attrs) :
        BindingTypeOf(get_ident(field.attrs[k])) \in {"Texture", "Sampler"}

\* The values a struct may have, as far as as_bind_group reads them: per
\* field that holds an optional handle, None (0) or a handle.
StructValues(fields) ==
    {value \in [1..Len(fields) -> {0} \cup Handles] :
        \A f \in 1..Len(fields) : ~HoldsHandle(fields[f]) => value[f] = 0}

\* A struct for which the derive succeeded, a value of it, a registry with
\* any images in it, a device nothing has been created on.
PrepareInit ==
    /\ \E input \in PreparedStructs :
          LET l == DeriveLocals(input)
          IN  /\ l.err = NoError
              /\ ast = input
              /\ pc = "done"
              /\ binding_states = l.binding_states
              /\ binding_impls = l.binding_impls
              /\ bind_group_entries = l.bind_group_entries
              /\ binding_layouts = l.binding_layouts
              /\ attr_prepared_data_ident = l.attr_prepared_data_ident
              /\ field_struct_impls = l.field_struct_impls
              /\ result = OkTokens(GeneratedImpl(l))
              /\ self \in StructValues(input.fields)
    /\ images \in SUBSET Handles
    /\ render_device = Device(0, 0)
    /\ prepared = NotCalled
    /\ outcomes = <<>>

\* Faulty variant of as_bind_group: a call that follows one that returned
\* RetryNextUpdate returns it again, whatever the registry holds by then.
as_bind_group_sticky ==
    /\ pc = "done" /\ result.tag = "Ok"
    /\ Len(outcomes) < MaxCalls
    /\ LET call == IF prepared.tag = "RetryNextUpdate"
                   THEN [ret |-> RetryNextUpdate, buffers |-> 0, bind_groups |-> 0]
                   ELSE AsBindGroupBody(result.tokens, self, images)
       IN  /\ prepared' = call.ret
           /\ render_device' = Device(render_device.buffers + call.buffers,
                                      render_device.bind_groups + call.bind_groups)
           /\ outcomes' = Append(outcomes, call.ret.tag)
    /\ UNCHANGED <<derive_vars, self, images>>

\* One call of the generated as_bind_group(&self, layout, render_device,
\* images, fallback_image).
as_bind_group ==
    /\ pc = "done" /\ result.tag = "Ok"
    /\ Len(outcomes) < MaxCalls
    /\ LET call == AsBindGroupBody(result.tokens, self, images)
       IN  /\ prepared' = call.ret
           /\ render_device' = Device(render_device.buffers + call.buffers,
                                      render_device.bind_groups + call.bind_groups)
           /\ outcomes' = Append(outcomes, call.ret.tag)
    /\ UNCHANGED <<derive_vars, self, images>>

\* Between calls an image becomes ready: the registry gains it.
InsertImage ==
    /\ \E handle \in Handles \ images : images' = images \cup {handle}
    /\ UNCHANGED <<derive_vars, self, render_device, prepared, outcomes>>

\* Between calls an image is unloaded: the registry loses it.
RemoveImage ==
    /\ \E handle \in images : images' = images \ {handle}
    /\ UNCHANGED <<derive_vars, self, render_device, prepared, outcomes>>

PrepareNext ==
    \/ as_bind_group
    \/ InsertImage
    \/ RemoveImage

\* The generated as_bind_group called again and again on one struct value
\* while the registry changes between the calls.
PrepareSpec == PrepareInit /\ [][PrepareNext]_vars

\* Some field with a texture or sampler attribute holds a handle the
\* registry has no image for.
SomeImageMissing ==
    \E f \in 1..Len(ast.fields) :
        HoldsHandle(ast.fields[f]) /\ self[f] # 0 /\ self[f] \notin images

\* The step is a call of as_bind_group.
IsCall == outcomes' # outcomes

\* C16: every call of the generated as_bind_group returns RetryNextUpdate
\* exactly when some texture or sampler field holds a handle whose image is
\* not in the registry at the call (so never because of a uniform, and
\* never because a field holds no handle), and returns Ok otherwise; in an
\* Ok result every binding built from a field that holds no handle is
\* fallback_image's, and every one built from a field that holds a handle
\* is that image's.
C16_RetryExactlyWhenUnloaded ==
    [][IsCall =>
          /\ prepared'.tag = "RetryNextUpdate" <=> SomeImageMissing
          /\ ~SomeImageMissing =>
                /\ prepared'.tag = "Ok"
                /\ Len(prepared'.bindings) = Len(result.tokens.bindings)
                /\ \A k \in 1..Len(result.tokens.bindings) :
                      LET impl == result.tokens.bindings[k]
                          built == prepared'.bindings[k]
                      IN  IF impl.from # "Handle"
                          THEN built.resource = "Buffer"
                          ELSE IF self[impl.fields[1]] = 0
                          THEN built.of = "Fallback"
                          ELSE built.of = "Image" /\ built.image = self[impl.fields[1]]
      ]_vars

\* A call has returned RetryNextUpdate for a struct one field of which holds
\* a handle without image in the registry, another holds no handle, and
\* which has a uniform as well.
C16_Witness ==
    /\ prepared.tag = "RetryNextUpdate"
    /\ SomeImageMissing
    /\ \E f \in 1..Len(ast.fields) : HoldsHandle(ast.fields[f]) /\ self[f] = 0
    /\ \E k \in 1..Len(result.tokens.bindings) :
          result.tokens.bindings[k].resource = "Buffer"

\* A call has returned Ok with a fallback binding and a binding of a loaded
\* image.
C16_FallbackWitness ==
    /\ prepared.tag = "Ok"
    /\ \E k \in 1..Len(prepared.bindings) : prepared.bindings[k].of = "Fallback"
    /\ \E k \in 1..Len(prepared.bindings) : prepared.bindings[k].of = "Image"

Reorderings(n) ==
    {p \in [1..n -> 1..n] : \A i, j \in 1..n : i # j => p[i] # p[j]}

\* The derive input with its fields in the order p gives.
Reordered(input, p) ==
    [input EXCEPT !.fields = [k \in 1..Len(input.fields) |-> input.fields[p[k]]]]

\* The layout entries a generated implementation has, as a set: per entry
\* the binding index, the kind of binding and its options.
LayoutSet(tokens) ==
    {[binding |-> tokens.layout_entries[k].binding,
      ty |-> tokens.layout_entries[k].ty,
      texture |-> tokens.layout_entries[k].texture,
      sampler |-> tokens.layout_entries[k].sampler] :
        k \in 1..Len(tokens.layout_entries)}

\* C18: when resolution is over, resolution of the same struct with its
\* fields in any other order succeeds exactly when this one did, and on
\* success has the same set of layout entries (binding index, kind and
\* options of each).
C18_OrderIndependent ==
    pc = "done" =>
        \A p \in Reorderings(Len(ast.fields)) :
            LET other == derive_as_bind_group(Reordered(ast, p))
            IN  /\ other.tag = result.tag
                /\ result.tag = "Ok" => LayoutSet(other.tokens) = LayoutSet(result.tokens)

\* A struct of three fields has resolved whose fields in reverse order give
\* the layout entries in another sequence.
C18_Witness ==
    /\ Resolved
    /\ Len(ast.fields) = 3
    /\ LET other == derive_as_bind_group(Reordered(ast, [k \in 1..3 |-> 4 - k]))
       IN  /\ other.tag = "Ok"
           /\ other.tokens.layout_entries # result.tokens.layout_entries

\* A struct has been rejected in which a uniform and a texture on two
\* fields name the same binding index.
C18_RejectedWitness ==
    /\ pc = "done" /\ result.tag = "Err"
    /\ Len(ast.fields) = 2
    /\ LET decls == Declarations
       IN  /\ Len(decls) = 2
           /\ IsUniform(decls[1]) /\ IsNonUniform(decls[2])
           /\ decls[1].index = decls[2].index

\* The shapes of aggregate other than a struct with named fields.
OtherShapes == DataChoices \ {"NamedStruct"}

\* C19: once the aggregate has been seen to be a tuple struct, a unit
\* struct, an enum or a union, resolution is over with an error; and
\* whatever struct-level attributes have been read before its shape is
\* looked at, derive_as_bind_group returns an error for an aggregate of any
\* of these shapes that carries them.
C19_OtherShapesRejected ==
    /\ ast.data \in OtherShapes => (pc = "done" /\ result.tag = "Err")
    /\ ast.data = "Unread" =>
          \A data \in OtherShapes :
              derive_as_bind_group([attrs |-> ast.attrs, data |-> data,
                                    fields |-> <<>>]).tag = "Err"

\* An enum that carries a well-formed bind_group_data and a well-formed
\* struct-level uniform has been rejected for its shape.
C19_Witness ==
    /\ pc = "done"
    /\ ast.data = "Enum"
    /\ \E k \in 1..Len(ast.attrs) : IsStructUniform(ast.attrs[k])
    /\ \E k \in 1..Len(ast.attrs) :
          /\ get_ident(ast.attrs[k]) = BIND_GROUP_DATA_ATTRIBUTE_NAME
          /\ ParsePreparedDataIdent(ast.attrs[k].tokens).ok
    /\ result.tag = "Err"
    /\ result.err.kind = "ExpectedNamedFields"

\* The kind of the declaration a layout entry was generated for.
KindOfLayout(entry) ==
    CASE entry.ty = "Texture" -> "Texture"
      [] entry.ty = "Sampler" -> "Sampler"
      [] entry.ty = "Buffer" /\ entry.min_size_of.kind = "ShaderType" -> "ConvertedUniform"
      [] entry.ty = "Buffer" -> "Uniform"

\* The binding impl is the one of a declaration at the binding index: of
\* the texture or sampler declaration of its field there, of all the
\* uniform fields declared there, or of a struct-level uniform there.
ImplBelongsTo(decls, impl, binding) ==
    CASE impl.from = "Handle" ->
            \E k \in 1..Len(decls) :
                /\ decls[k].member
                /\ decls[k].field = impl.fields[1]
                /\ decls[k].index = binding
                /\ decls[k].type = KindOfImpl(impl)
      [] impl.from \in {"Field", "UniformStruct"} ->
            impl.fields = UniformFieldsAt(decls, binding)
      [] impl.from = "ConvertedShaderType" ->
            binding \in Range(StructIndices)

\* The layout entry sizes its buffer by what the impl writes to it.
SizedAs(entry, impl) ==
    CASE impl.from = "Field" ->
            entry.min_size_of = SizeOf("FieldTy", "", impl.fields)
      [] impl.from = "UniformStruct" ->
            entry.min_size_of = SizeOf("UniformStruct", "", impl.fields)
      [] impl.from = "ConvertedShaderType" ->
            entry.min_size_of = SizeOf("ShaderType", impl.shader_type, <<>>)
      [] OTHER -> entry.min_size_of = NoSizeOf

\* C20: on success the binding impls, the bind group entries and the layout
\* entries are equally many, and at every position k the entry reads
\* bindings[k] (counting from 0), the layout entry has the entry's binding
\* index, and the impl, the entry and the layout entry are those of one
\* declaration kind at that binding index.
C20_ListsAligned ==
    Resolved
    => LET decls == Declarations
           bindings == result.tokens.bindings
           entries == result.tokens.entries
           layouts == result.tokens.layout_entries
       IN  /\ Len(bindings) = Len(entries)
           /\ Len(layouts) = Len(entries)
           /\ \A k \in 1..Len(entries) :
                 /\ entries[k].resource = k - 1
                 /\ layouts[k].binding = entries[k].binding
                 /\ KindOfLayout(layouts[k]) = KindOfImpl(bindings[k])
                 /\ SizedAs(layouts[k], bindings[k])
                 /\ ImplBelongsTo(decls, bindings[k], entries[k].binding)

\* A struct-level uniform at binding 1 and a texture at binding 0 have
\* resolved to two aligned positions, the higher binding index first.
C20_Witness ==
    /\ Resolved
    /\ Len(result.tokens.entries) = 2
    /\ result.tokens.entries[1].binding = 1
    /\ result.tokens.entries[2].binding = 0
    /\ KindOfImpl(result.tokens.bindings[1]) = "ConvertedUniform"
    /\ KindOfImpl(result.tokens.bindings[2]) = "Texture"
    /\ result.tokens.layout_entries[2].ty = "Texture"

\* The error kinds of a slot conflict.
SlotConflictKinds == {"OccupiedByField", "OccupiedByStructUniform", "OccupiedByUniform"}

\* The error says which occupant holds the slot: a field declared earlier
\* at the binding index, by name and kind, or the struct-level uniform
\* binding declared there.
NamesOccupant(decls, err) ==
    \/ /\ err.occupant_type = "StructLevelUniform"
       /\ err.binding \in Range(StructIndices)
    \/ \E k \in 1..Len(decls) :
          /\ decls[k].member
          /\ decls[k].index = err.binding
          /\ decls[k].field = err.occupant
          /\ decls[k].type = err.occupant_type

\* C21: when resolution ended in a slot-conflict error, the error names the
\* rejected field (the field of the declaration read last) and names the
\* occupant of the slot: a field declared earlier at that binding index
\* with its kind, or the struct-level uniform binding.
C21_ConflictNamesOccupant ==
    (pc = "done" /\ result.tag = "Err" /\ result.err.kind \in SlotConflictKinds)
    => LET decls == Declarations
       IN  /\ Len(decls) > 0
           /\ result.err.field = decls[Len(decls)].field
           /\ result.err.binding = decls[Len(decls)].index
           /\ NamesOccupant(decls, result.err)

\* The part of C21 the code keeps: a conflict with a texture, a sampler or
\* a struct-level uniform names the rejected field and the occupant.
C21_OtherConflictsNameOccupant ==
    (/\ pc = "done" /\ result.tag = "Err"
     /\ result.err.kind \in {"OccupiedByField", "OccupiedByStructUniform"})
    => LET decls == Declarations
       IN  /\ Len(decls) > 0
           /\ result.err.field = decls[Len(decls)].field
           /\ result.err.binding = decls[Len(decls)].index
           /\ NamesOccupant(decls, result.err)

\* The slot at position i of a table; a slot the table has not grown to yet
\* is Free.
SlotOf(states, i) == IF i <= Len(states) THEN states[i] ELSE Free

IsPrefix(s, t) == Len(s) <= Len(t) /\ SubSeq(t, 1, Len(s)) = s

\* What a step may do to one slot: anything to a Free slot, nothing to an
\* Occupied or OccupiedConvertedUniform slot, and only append fields to an
\* OccupiedMergableUniform slot.
SlotKept(old, new) ==
    CASE old.tag = "Free" -> TRUE
      [] old.tag = "OccupiedMergableUniform" ->
            /\ new.tag = "OccupiedMergableUniform"
            /\ IsPrefix(old.uniform_fields, new.uniform_fields)
      [] OTHER -> new = old

SlotsKept ==
    \A i \in 1..Len(binding_states) :
        SlotKept(binding_states[i], SlotOf(binding_states', i))

\* The step read a declaration and resolution ended in its error.
DeclarationFails ==
    /\ result.tag = "Pending" /\ result'.tag = "Err"
    /\ ast'.data = ast.data

SlotsUntouched ==
    \A i \in 1..(Len(binding_states) + Len(binding_states')) :
        SlotOf(binding_states', i) = SlotOf(binding_states, i)

\* The failed declaration is a texture or sampler whose index parsed and
\* whose slot was free, rejected for its options.
OptionsRejected ==
    /\ ast'.fields # <<>>
    /\ LET field == ast'.fields[Len(ast'.fields)]
           attr == field.attrs[Len(field.attrs)]
       IN  /\ BindingTypeOf(get_ident(attr)) \in {"Texture", "Sampler"}
           /\ get_binding_nested_meta(attr).ok
           /\ result'.err.kind \notin SlotConflictKinds

\* The failed declaration took the slot of its binding index, which was
\* free, and no other slot changed.
TookItsFreeSlot ==
    LET err == result'.err
    IN  /\ SlotOf(binding_states, err.binding + 1) = Free
        /\ SlotOf(binding_states', err.binding + 1).tag = "Occupied"
        /\ SlotOf(binding_states', err.binding + 1).ident = err.field
        /\ \A i \in 1..(Len(binding_states) + Len(binding_states')) :
              i # err.binding + 1
              => SlotOf(binding_states', i) = SlotOf(binding_states, i)

\* C23 as stated: no step returns a slot to Free or changes the variant of
\* a slot that left Free; an Occupied slot keeps its type and field, an
\* OccupiedConvertedUniform slot stays, an OccupiedMergableUniform slot only
\* has fields appended; and a step whose declaration fails leaves every
\* slot as it was.
C23_FailureLeavesSlots ==
    [][SlotsKept /\ (DeclarationFails => SlotsUntouched)]_vars

\* C23, amended: slots are kept as above, and a failing declaration leaves
\* every slot as it was unless it is a texture or sampler rejected for its
\* options, which has by then taken its free slot and changed no other.
C23_SlotsKept ==
    [][/\ SlotsKept
       /\ DeclarationFails /\ ~OptionsRejected => SlotsUntouched
       /\ DeclarationFails /\ OptionsRejected => TookItsFreeSlot]_vars

\* Two uniforms merged in one slot, then a texture rejected at that slot:
\* the slot still holds the two fields in the order they were declared.
C23_Witness ==
    /\ pc = "done" /\ result.tag = "Err"
    /\ result.err.kind = "OccupiedByUniform"
    /\ \E i \in 1..Len(binding_states) :
          /\ binding_states[i].tag = "OccupiedMergableUniform"
          /\ binding_states[i].uniform_fields = <<1, 2>>
          /\ result.err.binding = i - 1

\* A texture rejected for its options holds the slot it took.
C23_OptionsRejectedWitness ==
    /\ pc = "done" /\ result.tag = "Err"
    /\ result.err.kind = "FilterableRequiresFloat"
    /\ Len(binding_states) > result.err.binding
    /\ StateAt(binding_states, result.err.binding) =
           Occupied("Texture", result.err.field)

\* The calls so far that returned Ok.
OkCalls == SelectSeq(outcomes, LAMBDA tag : tag = "Ok")

\* C24: a call of the generated as_bind_group that returns RetryNextUpdate
\* creates no bind group on the device, and a call that returns Ok creates
\* one, after it has built every binding: the bind groups created on the
\* device are as many as the calls that returned Ok, and an Ok result holds
\* one binding per binding the implementation builds.
C24_NoBindGroupOnRetry ==
    /\ render_device.bind_groups = Len(OkCalls)
    /\ prepared.tag = "Ok" =>
          Len(prepared.bindings) = Len(result.tokens.bindings)

\* A call has returned RetryNextUpdate after it had created the buffer of a
\* binding that comes before the one whose image is missing, and the device
\* has no bind group.
C24_Witness ==
    /\ outcomes = <<"RetryNextUpdate">>
    /\ prepared.tag = "RetryNextUpdate"
    /\ render_device.buffers > 0
    /\ render_device.bind_groups = 0

\* A call that returned RetryNextUpdate followed one that returned Ok: the
\* device has the bind group of the first call only.
C24_AfterOkWitness ==
    /\ outcomes = <<"Ok", "RetryNextUpdate">>
    /\ render_device.bind_groups = 1

====
